---- MODULE Spec2Model ----
(***************************************************************************)
(* State-machine model of the Notion <-> Obsidian synchronisation engine   *)
(* (SyncManager in sync-manager.ts, NotionAPI in notion-api.ts).           *)
(*                                                                         *)
(* Text is modelled as a sequence of one-character strings so that the     *)
(* string functions of the source (trim, replace, substring, split) are    *)
(* computed and not assumed.                                               *)
(***************************************************************************)
EXTENDS Integers, Sequences, FiniteSets, TLC

VARIABLES
  remote,              \* Notion database: page id -> [properties, blocks, last_edited_time]
  vault,               \* Obsidian vault: file path -> [fm, rest, mtime]
  folderExists,        \* does config.obsidianFolder exist in the vault
  config,              \* the SyncConfig handed to syncConfig
  conflictResolution,  \* settings.conflictResolution
  now,                 \* wall clock (Date.now / file system / Notion edit time)
  nextId,              \* number of page ids the Notion service has handed out
  run,                 \* position and locals of the syncConfig call in flight
  hist,                \* what the run in flight has done (observation only)
  prev,                \* what the last finished run did (observation only)
  budget,              \* external edits and runs performed so far
  settings,            \* settings.syncConfigs and settings.autoSync
  batch,               \* position and locals of the syncAll call in flight
  call                 \* the call followed apart from a sync run: function, arguments, locals, result

vars == <<remote, vault, folderExists, config, conflictResolution, now, nextId,
          run, hist, prev, budget, settings, batch, call>>

(***************************************************************************)
(* Bounds of the exploration.                                              *)
(***************************************************************************)
MaxRuns == 2
MaxEdits == 1
MaxFaults == 1
MaxConfigs == 3
MaxCalls == 2
MaxText == 2
MaxEntries == 2
MaxRelations == 3
MaxBatches == 3
MaxBatchLen == 2
MaxEvents == 4
MaxFires == 2

(***************************************************************************)
(* Program constants.                                                      *)
(***************************************************************************)
IdPrefixLen == 8
MaxFileNameLen == 100

NOTION_TO_OBSIDIAN == "notion-to-obsidian"
OBSIDIAN_TO_NOTION == "obsidian-to-notion"
BIDIRECTIONAL == "bidirectional"
Directions == {NOTION_TO_OBSIDIAN, OBSIDIAN_TO_NOTION, BIDIRECTIONAL}
Policies == {"notion-wins", "obsidian-wins", "newer-wins", "manual"}

(***************************************************************************)
(* Text helpers: String.prototype.trim, replace, split, substring.         *)
(***************************************************************************)
WhiteSpace == {" ", "\n", "\r", "\t"}
InvalidFileChars == {"<", ">", ":", "\"", "/", "\\", "|", "?", "*"}

Min(a, b) == IF a < b THEN a ELSE b

RECURSIVE TrimLeft(_)
TrimLeft(s) == IF s # <<>> /\ Head(s) \in WhiteSpace THEN TrimLeft(Tail(s)) ELSE s

RECURSIVE TrimRight(_)
TrimRight(s) ==
  IF s # <<>> /\ s[Len(s)] \in WhiteSpace THEN TrimRight(SubSeq(s, 1, Len(s) - 1)) ELSE s

Trim(s) == TrimRight(TrimLeft(s))

Substring(s, n) == SubSeq(s, 1, Min(n, Len(s)))

RECURSIVE Concat(_)
Concat(ss) == IF ss = <<>> THEN <<>> ELSE Head(ss) \o Concat(Tail(ss))

\* s.replace(/\s+/g, ' '): the first character of every run of white space
\* becomes a space, the other characters of the run are dropped
CollapseSpaces(s) ==
  LET kept == SelectSeq([i \in 1..Len(s) |-> i],
                        LAMBDA i : ~(s[i] \in WhiteSpace /\ i > 1 /\ s[i - 1] \in WhiteSpace))
  IN [j \in 1..Len(kept) |-> IF s[kept[j]] \in WhiteSpace THEN " " ELSE s[kept[j]]]

\* s.replace(/\r\n/g, '\n')
RECURSIVE CrLfToLf(_)
CrLfToLf(s) ==
  IF s = <<>> THEN <<>>
  ELSE IF Len(s) >= 2 /\ s[1] = "\r" /\ s[2] = "\n"
       THEN <<"\n">> \o CrLfToLf(SubSeq(s, 3, Len(s)))
       ELSE <<Head(s)>> \o CrLfToLf(Tail(s))

\* s.split('\n')
RECURSIVE SplitLines(_, _)
SplitLines(s, cur) ==
  IF s = <<>> THEN <<cur>>
  ELSE IF Head(s) = "\n" THEN <<cur>> \o SplitLines(Tail(s), <<>>)
       ELSE SplitLines(Tail(s), Append(cur, Head(s)))

Put(f, k, v) == [x \in DOMAIN f \cup {k} |-> IF x = k THEN v ELSE f[x]]
Merge(f, g) == [x \in DOMAIN f \cup DOMAIN g |-> IF x \in DOMAIN g THEN g[x] ELSE f[x]]
EmptyMap == [x \in {} |-> <<>>]

\* new Date(t).toISOString(): the timestamp as text
ToISOString(t) == <<ToString(t)>>

(***************************************************************************)
(* NotionAPI: body text <-> blocks.  The model's body alphabet has no      *)
(* heading or list markers, so every non-empty line is paragraph text.     *)
(***************************************************************************)
RECURSIVE ParagraphsOf(_, _)
ParagraphsOf(lines, cur) ==
  IF lines = <<>> THEN (IF cur # <<>> THEN <<cur>> ELSE <<>>)
  ELSE LET t == Trim(Head(lines)) IN
       IF t = <<>>
       THEN (IF cur # <<>> THEN <<cur>> ELSE <<>>) \o ParagraphsOf(Tail(lines), <<>>)
       ELSE ParagraphsOf(Tail(lines), (IF cur # <<>> THEN cur \o <<" ">> ELSE cur) \o t)

markdownToBlocks(markdown) == ParagraphsOf(SplitLines(markdown, <<>>), <<>>)

RECURSIVE ParagraphText(_)
ParagraphText(blocks) ==
  IF blocks = <<>> THEN <<>> ELSE Head(blocks) \o <<"\n", "\n">> \o ParagraphText(Tail(blocks))

blocksToMarkdown(blocks) == Trim(ParagraphText(blocks))

(***************************************************************************)
(* createMarkdownContent and parseMarkdownFile character by character.     *)
(*                                                                         *)
(* A front-matter value is [t, v]: t is what typeof / Array.isArray tell   *)
(* ("string", "number", "boolean", "list"), v the sequence of the texts it *)
(* holds: the one text of a string, String(n) of a number, String(b) of a  *)
(* boolean, the elements of a list.  An object is the sequence of its      *)
(* entries [key, t, v] in insertion order; keys are texts.  The texts of   *)
(* the model have no ".", "e" or "x", so a number is a run of decimal      *)
(* digits with an optional sign.                                           *)
(***************************************************************************)
Digits == <<"0", "1", "2", "3", "4", "5", "6", "7", "8", "9">>

\* Array.prototype.join(sep) on texts
RECURSIVE Join(_, _)
Join(ss, sep) ==
  IF ss = <<>> THEN <<>>
  ELSE IF Len(ss) = 1 THEN ss[1]
  ELSE ss[1] \o sep \o Join(Tail(ss), sep)

\* String(n) for an integer
RECURSIVE NumberText(_)
NumberText(n) ==
  IF n < 0 THEN <<"-">> \o NumberText(0 - n)
  ELSE IF n < 10 THEN <<Digits[n + 1]>>
  ELSE NumberText(n \div 10) \o <<Digits[(n % 10) + 1]>>

\* String(b) for a boolean
BooleanText(b) == IF b THEN <<"t", "r", "u", "e">> ELSE <<"f", "a", "l", "s", "e">>

\* `${value}` inside the template of one front-matter line
ValueText(e) ==
  CASE e.t = "list" ->
         <<"[">> \o Join([i \in DOMAIN e.v |-> <<"\"">> \o e.v[i] \o <<"\"">>], <<",", " ">>)
                 \o <<"]">>
    [] e.t = "string" -> <<"\"">> \o e.v[1] \o <<"\"">>
    [] OTHER -> e.v[1]

createMarkdownText(entries, content) ==
  IF Len(entries) = 0 THEN content
  ELSE <<"-", "-", "-", "\n">>
       \o Concat([i \in DOMAIN entries |->
                    entries[i].key \o <<":", " ">> \o ValueText(entries[i]) \o <<"\n">>])
       \o <<"-", "-", "-", "\n", "\n">> \o content

\* s.indexOf(pat, from), counted from 1; 0 when pat does not occur
IndexOf(s, pat, from) ==
  LET hits == {i \in from..(Len(s) - Len(pat) + 1) : SubSeq(s, i, i + Len(pat) - 1) = pat}
  IN IF hits = {} THEN 0 ELSE CHOOSE i \in hits : \A j \in hits : i <= j

\* s.split(c) for a one-character separator
RECURSIVE Split(_, _, _)
Split(s, c, cur) ==
  IF s = <<>> THEN <<cur>>
  ELSE IF Head(s) = c THEN <<cur>> \o Split(Tail(s), c, <<>>)
       ELSE Split(Tail(s), c, Append(cur, Head(s)))

Quoted(s) == Len(s) >= 1 /\ s[1] = "\"" /\ s[Len(s)] = "\""

\* s.slice(1, -1)
Slice1(s) == SubSeq(s, 2, Len(s) - 1)

\* Number(s): [nan, n]; the empty text is the number 0
RECURSIVE DigitsValue(_, _)
DigitsValue(s, acc) ==
  IF s = <<>> THEN acc
  ELSE DigitsValue(Tail(s),
                   10 * acc + (CHOOSE d \in 0..9 : Digits[d + 1] = Head(s)))

Number(s) ==
  LET t == Trim(s)
      signed == t # <<>> /\ t[1] \in {"-", "+"}
      ds == IF signed THEN Tail(t) ELSE t
      isDigits == \A i \in DOMAIN ds : \E d \in 0..9 : Digits[d + 1] = ds[i]
  IN IF t = <<>> THEN [nan |-> FALSE, n |-> 0]
     ELSE IF ds = <<>> \/ ~isDigits THEN [nan |-> TRUE, n |-> 0]
     ELSE [nan |-> FALSE,
           n |-> IF t[1] = "-" THEN 0 - DigitsValue(ds, 0) ELSE DigitsValue(ds, 0)]

\* the value typing of parseMarkdownFile; value is already trimmed
ParsedValue(value) ==
  IF Quoted(value) THEN [t |-> "string", v |-> <<Slice1(value)>>]
  ELSE IF Len(value) >= 1 /\ value[1] = "[" /\ value[Len(value)] = "]"
  THEN [t |-> "list",
        v |-> LET parts == Split(Slice1(value), ",", <<>>)
              IN [i \in DOMAIN parts |->
                    LET x == Trim(parts[i])
                    IN IF Len(x) >= 2 /\ Quoted(x) THEN Slice1(x) ELSE x]]
  ELSE IF value \in {BooleanText(TRUE), BooleanText(FALSE)}
  THEN [t |-> "boolean", v |-> <<value>>]
  ELSE IF ~Number(value).nan THEN [t |-> "number", v |-> <<NumberText(Number(value).n)>>]
  ELSE [t |-> "string", v |-> <<value>>]

\* the loop over yamlLines: a line with a colon after its first character sets a key
RECURSIVE ParsedLines(_, _)
ParsedLines(lines, fm) ==
  IF lines = <<>> THEN fm
  ELSE LET line == Head(lines)
           colonIndex == IndexOf(line, <<":">>, 1)
       IN IF colonIndex > 1
          THEN ParsedLines(Tail(lines),
                           Put(fm, Trim(SubSeq(line, 1, colonIndex - 1)),
                               ParsedValue(Trim(SubSeq(line, colonIndex + 1, Len(line))))))
          ELSE ParsedLines(Tail(lines), fm)

\* /^---\n([\s\S]*?)\n---\n/: the block ends at the first "\n---\n" after the
\* opening line; the content is what follows the match
parseMarkdownText(text) ==
  LET close == IF Len(text) >= 4 /\ SubSeq(text, 1, 4) = <<"-", "-", "-", "\n">>
               THEN IndexOf(text, <<"\n", "-", "-", "-", "\n">>, 5) ELSE 0
  IN IF close = 0 THEN [frontmatter |-> EmptyMap, content |-> text]
     ELSE [frontmatter |-> ParsedLines(Split(SubSeq(text, 5, close - 1), "\n", <<>>), EmptyMap),
           content |-> SubSeq(text, close + 5, Len(text))]

(***************************************************************************)
(* Document codec and property codec of SyncManager.                       *)
(*                                                                         *)
(* A Notion property is [type, segs]: segs is the rich-text array stored   *)
(* under the key named by the type; each segment is its plain_text.  For a *)
(* checkbox, a number or a select, segs is the text of the value stored    *)
(* under that key, and no text at all when the value is null.              *)
(* A field mapping is [notionProperty, obsidianProperty, type].            *)
(* A vault file is [fm, rest, mtime]: the front-matter block as written    *)
(* and the text that follows the closing "---\n" line.                     *)
(***************************************************************************)
Undefined == <<>>   \* a missing value; like the empty string it is falsy

\* String.prototype.toLowerCase on the property names of the modelled schema
ToLowerCase(name) ==
  CASE name = "Name" -> "name"
    [] name = "Status" -> "status"
    [] name = "Title" -> "title"
    [] name = "Done" -> "done"
    [] name = "Due Date" -> "due date"
    [] name = "Subtitle" -> "subtitle"
    [] OTHER -> name

\* name.replace(/\s+/g, '_') on the same names
SpacesToUnderscores(name) == IF name = "due date" THEN "due_date" ELSE name

\* propName.toLowerCase().replace(/\s+/g, '_')
FrontmatterKey(propName) == SpacesToUnderscores(ToLowerCase(propName))

\* name.replace(/[<>:"/\\|?*]/g, '').replace(/\s+/g, ' ').trim().substring(0, 100)
sanitizeFileName(name) ==
  Substring(Trim(CollapseSpaces(SelectSeq(name, LAMBDA c : c \notin InvalidFileChars))),
            MaxFileNameLen)

\* does the property hold a title whose first segment is not blank
HasTitleText(prop) ==
  /\ prop.type = "title"
  /\ Len(prop.segs) > 0
  /\ Trim(prop.segs[1]) # <<>>

FirstIndex(seq, Test(_)) ==
  LET hits == {i \in 1..Len(seq) : Test(seq[i])}
  IN IF hits = {} THEN 0 ELSE CHOOSE i \in hits : \A j \in hits : i <= j

\* mutant: the whole identifier follows the prefix
FallbackFileNameWholeId(id) ==
  <<"N", "o", "t", "i", "o", "n", "-", "P", "a", "g", "e", "-">> \o id

\* `Notion-Page-${page.id.substring(0, 8)}`
FallbackFileName(id) ==
  <<"N", "o", "t", "i", "o", "n", "-", "P", "a", "g", "e", "-">> \o Substring(id, IdPrefixLen)

\* the names of the schema that include 'title' in lower case are Title and Subtitle;
\* a title found under the key Name (the third source) is a title-typed property
\* and so already found by the second
getFileNameFromPage(page, cfg) ==
  LET k == FirstIndex(cfg.fieldMappings,
                      LAMBDA m : \/ ToLowerCase(m.notionProperty) \in {"title", "subtitle"}
                                 \/ ToLowerCase(m.notionProperty) = "name")
      mapped == IF k = 0 THEN {}
                ELSE {cfg.fieldMappings[k].notionProperty} \cap DOMAIN page.properties
      titled == {n \in DOMAIN page.properties : HasTitleText(page.properties[n])}
  IN IF \E n \in mapped : HasTitleText(page.properties[n])
     THEN sanitizeFileName(page.properties[cfg.fieldMappings[k].notionProperty].segs[1])
     ELSE IF titled # {}
     THEN sanitizeFileName(page.properties[CHOOSE n \in titled : TRUE].segs[1])
     ELSE FallbackFileName(page.id)

\* mutant: a path made unique by the time of the run
FilePathStamped(cfg, fileName) ==
  [folder |-> cfg.obsidianFolder, name |-> fileName \o <<ToString(cfg.lastSync)>>]

\* `${config.obsidianFolder}/${fileName}.md`
FilePath(cfg, fileName) == [folder |-> cfg.obsidianFolder, name |-> fileName]

\* the per-type value extraction of convertNotionPropertiesToFrontmatter
PropertyValue(prop) ==
  CASE prop.type = "title" -> Concat(prop.segs)
    [] prop.type = "rich_text" -> Concat(prop.segs)
    [] prop.type = "number" -> Number(prop.segs[1]).n
    [] prop.type = "select" -> prop.segs[1]
    [] prop.type = "checkbox" -> prop.segs[1] = BooleanText(TRUE)
    [] OTHER -> <<"[", prop.type, "]">>

ConvertedTypes == {"title", "rich_text", "number", "select", "checkbox"}

\* the switch leaves value null or undefined
NoValue(prop) == prop.type \in {"number", "select"} /\ prop.segs = <<>>

\* the value set without mappings: '' for no value, the bracketed type for the default case
AutoValue(prop) == IF NoValue(prop) THEN <<>> ELSE PropertyValue(prop)

RECURSIVE MappedFrontmatter(_, _, _)
MappedFrontmatter(properties, mappings, fm) ==
  IF mappings = <<>> THEN fm
  ELSE LET m == Head(mappings) IN
       IF \/ m.notionProperty \notin DOMAIN properties
          \/ properties[m.notionProperty].type \notin ConvertedTypes
          \/ NoValue(properties[m.notionProperty])
       THEN MappedFrontmatter(properties, Tail(mappings), fm)
       ELSE MappedFrontmatter(properties, Tail(mappings),
                              Put(fm, m.obsidianProperty,
                                  PropertyValue(properties[m.notionProperty])))

convertNotionPropertiesToFrontmatter(properties, cfg) ==
  IF Len(cfg.fieldMappings) = 0
  THEN [k \in {FrontmatterKey(n) : n \in DOMAIN properties} |->
          AutoValue(properties[CHOOSE n \in DOMAIN properties : FrontmatterKey(n) = k])]
  ELSE MappedFrontmatter(properties, cfg.fieldMappings, EmptyMap)

RECURSIVE MappedProperties(_, _, _)
MappedProperties(frontmatter, mappings, props) ==
  IF mappings = <<>> THEN props
  ELSE LET m == Head(mappings) IN
       IF m.obsidianProperty \notin DOMAIN frontmatter
       THEN MappedProperties(frontmatter, Tail(mappings), props)
       ELSE IF m.type = "text"
       THEN MappedProperties(frontmatter, Tail(mappings),
                             Put(props, m.notionProperty,
                                 [type |-> "rich_text",
                                  segs |-> <<frontmatter[m.obsidianProperty]>>]))
       ELSE IF m.type = "number" /\ ~Number(frontmatter[m.obsidianProperty]).nan
       THEN MappedProperties(frontmatter, Tail(mappings),
                             Put(props, m.notionProperty,
                                 [type |-> "number",
                                  segs |-> <<NumberText(
                                               Number(frontmatter[m.obsidianProperty]).n)>>]))
       ELSE MappedProperties(frontmatter, Tail(mappings), props)

convertFrontmatterToNotionProperties(frontmatter, cfg) ==
  IF Len(cfg.fieldMappings) = 0 THEN EmptyMap
  ELSE MappedProperties(frontmatter, cfg.fieldMappings, EmptyMap)

\* NotionAPI.getPageInfo on the response [ok, segs] of GET /pages/{id}: ok is
\* whether the request succeeded, segs the title array of the page.  A failed
\* request is caught and gives null.
Untitled == <<"U", "n", "t", "i", "t", "l", "e", "d">>

getPageInfo(response) ==
  IF ~response.ok THEN [null |-> TRUE, title |-> <<>>]
  ELSE [null |-> FALSE,
        title |-> IF Len(response.segs) > 0 THEN Concat(response.segs) ELSE Untitled]

\* mutant: the loop ends at the first lookup that gives no page
RECURSIVE RelationWalkStopping(_, _, _)
RelationWalkStopping(relations, responses, acc) ==
  IF relations = <<>> \/ ~Head(responses).ok THEN acc
  ELSE RelationWalkStopping(
         Tail(relations), Tail(responses),
         [relationTexts |-> Append(acc.relationTexts, getPageInfo(Head(responses)).title),
          lookups |-> Append(acc.lookups, Head(relations).id)])

\* the loop of getRelationDisplayText: relationTexts and the getPageInfo calls made.
\* getPageInfo never rejects, so the catch that pushes 'Unknown' is not entered.
RECURSIVE RelationWalk(_, _, _)
RelationWalk(relations, responses, acc) ==
  IF relations = <<>> THEN acc
  ELSE LET pageInfo == getPageInfo(Head(responses)) IN
       RelationWalk(
         Tail(relations), Tail(responses),
         IF Head(relations).id = <<>> THEN acc
         ELSE [relationTexts |->
                 Append(acc.relationTexts,
                        IF ~pageInfo.null /\ pageInfo.title # <<>> THEN pageInfo.title
                        ELSE Untitled),
               lookups |-> Append(acc.lookups, Head(relations).id)])

\* responses[i] is what the service answers to the lookup of relations[i]
getRelationDisplayText(relations, responses) ==
  LET walk == RelationWalk(relations, responses, [relationTexts |-> <<>>, lookups |-> <<>>])
  IN [text |-> Join(walk.relationTexts, <<",", " ">>),
      relationTexts |-> walk.relationTexts,
      lookups |-> walk.lookups]

\* "---\n" + one line per entry + "---\n\n" + content; no block for an empty map
createMarkdownContent(frontmatter, content) ==
  [fm |-> frontmatter,
   rest |-> IF DOMAIN frontmatter # {} THEN <<"\n">> \o content ELSE content]

\* the regex consumes the block up to and including the closing "---\n"
parseMarkdownFile(path, file) ==
  [path |-> path,
   frontmatter |-> file.fm,
   content |-> file.rest,
   lastModified |-> file.mtime,
   notionId |-> IF "notionId" \in DOMAIN file.fm THEN file.fm["notionId"] ELSE Undefined]

normalizeValue(map, key) == IF key \in DOMAIN map THEN Trim(map[key]) ELSE <<>>

\* mutant: line ends are unified but the text is not trimmed
normalizeContentNoTrim(content) == CrLfToLf(content)

normalizeContent(content) == Trim(CrLfToLf(content))

hasSignificantChanges(notion, obsidian, cfg) ==
  \E i \in 1..Len(cfg.fieldMappings) :
     normalizeValue(notion, cfg.fieldMappings[i].obsidianProperty)
       # normalizeValue(obsidian, cfg.fieldMappings[i].obsidianProperty)

(***************************************************************************)
(* The two stores and the remote client (NotionAPI).                       *)
(***************************************************************************)
R1 == <<"r", "1">>
R2 == <<"r", "2">>

TitleProp(segs) == [type |-> "title", segs |-> segs]
TextProp(segs) == [type |-> "rich_text", segs |-> segs]

\* every page of the database has the properties of the database schema
SchemaDefaults == [Name |-> TitleProp(<<>>), Status |-> TextProp(<<>>)]

RemotePage(title, status, blocks, t) ==
  [properties |-> [Name |-> TitleProp(title), Status |-> TextProp(status)],
   blocks |-> blocks,
   last_edited_time |-> t]

Perms(S) == {f \in [1..Cardinality(S) -> S] : \A x \in S : \E i \in DOMAIN f : f[i] = x}

\* one NotionPage of getDatabasePages; a failed getPageContent leaves content ''
NotionPage(id, contentFailed) ==
  [id |-> id,
   properties |-> remote[id].properties,
   content |-> IF contentFailed THEN <<>> ELSE blocksToMarkdown(remote[id].blocks),
   lastModified |-> remote[id].last_edited_time]

\* the id the service gives to the page it creates next
NewPageId == <<"n", ToString(nextId + 1)>>

CreatedPage(properties, content) ==
  [properties |-> Merge(SchemaDefaults, properties),
   blocks |-> markdownToBlocks(content),
   last_edited_time |-> now]

\* updatePage: PATCH the properties, then, for a truthy content, read the
\* blocks, delete them and append the new ones.  stage tells how far it got.
UpdatePageStages == {"done", "noPatch", "noBlockList", "noAppend"}

UpdatedPage(page, properties, content, stage) ==
  IF stage = "noPatch" THEN page
  ELSE [properties |-> Merge(page.properties, properties),
        blocks |-> IF content = <<>> \/ stage = "noBlockList" THEN page.blocks
                   ELSE IF stage = "noAppend" THEN <<>>
                   ELSE markdownToBlocks(content),
        last_edited_time |-> now]

\* the stages updatePage can stop at for this call
PossibleStages(pageId, content) ==
  IF pageId \notin DOMAIN remote THEN {"noPatch"}
  ELSE IF content = <<>> THEN {"done", "noPatch"}
  ELSE UpdatePageStages

File(fm, rest, t) == [fm |-> fm, rest |-> rest, mtime |-> t]

\* vault.modify / vault.create: the file holds the content, stamped with the time
Written(content, t) == [fm |-> content.fm, rest |-> content.rest, mtime |-> t]

\* mutant: a write that moves the note, dropping the files that carried its notionId
VaultWriteMoving(files, path, content) ==
  LET stale == {q \in DOMAIN files \ {path} :
                  /\ "notionId" \in DOMAIN content.fm
                  /\ "notionId" \in DOMAIN files[q].fm
                  /\ files[q].fm["notionId"] = content.fm["notionId"]}
  IN [q \in (DOMAIN files \ stale) \cup {path} |->
        IF q = path THEN [fm |-> content.fm, rest |-> content.rest, mtime |-> now]
        ELSE files[q]]

\* vault.modify(file, content) / vault.create(path, content): only this path changes
VaultWrite(files, path, content) == Put(files, path, Written(content, now))

FolderPaths == {p \in DOMAIN vault : p.folder = config.obsidianFolder}

(***************************************************************************)
(* Run state.                                                              *)
(***************************************************************************)
NoError == [config |-> "", message |-> ""]

IdleRun ==
  [pc |-> "idle", overrideDirection |-> "", direction |-> "", actualDirection |-> "",
   notionPages |-> <<>>, files |-> <<>>, obsidianNotes |-> <<>>, i |-> 0,
   createdCount |-> 0, updatedCount |-> 0, errorCount |-> 0,
   conflicts |-> 0, notionToObsidian |-> 0, obsidianToNotion |-> 0,
   error |-> NoError]

IdleHist ==
  [io |-> 0, remoteWrites |-> 0, localWrites |-> 0,
   preVault |-> EmptyMap, preRemote |-> EmptyMap, preLastSync |-> 0,
   creates |-> {}, written |-> EmptyMap, itemFailures |-> 0, fetchFailed |-> FALSE,
   resolved |-> {}, faults |-> 0]

NoPrev == [pc |-> "none", actualDirection |-> "", errorCount |-> 0,
           written |-> EmptyMap, resolved |-> {},
           remoteEdited |-> FALSE, localEdited |-> FALSE]

\* throw inside syncConfig: caught and rethrown as `Failed to sync <name>: <message>`
\* may one more I/O call fail
CanFail == hist.faults < MaxFaults

Thrown(message) ==
  [run EXCEPT !.pc = "failed", !.error = [config |-> config.name, message |-> message]]

(***************************************************************************)
(* Initial states: a fresh configuration, a database with two pages and a  *)
(* vault that is empty or holds one note the user wrote by hand.           *)
(***************************************************************************)
StatusMapping == [notionProperty |-> "Status", obsidianProperty |-> "status", type |-> "text"]

Config(db, folder, mappings) ==
  [name |-> "cfg", notionDatabaseId |-> db, obsidianFolder |-> folder,
   syncDirection |-> BIDIRECTIONAL, fieldMappings |-> mappings,
   lastSync |-> 0, enabled |-> TRUE]

\* a configuration whose direction was changed to pull in the settings tab
PullConfig == [Config("db", "F", <<StatusMapping>>) EXCEPT !.syncDirection = NOTION_TO_OBSIDIAN]

\* no syncAll call in flight
IdleBatch ==
  [pc |-> "idle", direction |-> "", k |-> 0, successCount |-> 0, errorCount |-> 0,
   called |-> <<>>, skipped |-> {}, notices |-> 0, button |-> FALSE, inFlight |-> 0,
   calls |-> 0]

UserNote == File(EmptyMap, <<"p", "\n", "q">>, 0)

\* no codec call made yet
NoCall == [op |-> "none"]

InitRemote ==
  (R1 :> RemotePage(<< <<"A">> >>, << <<"u">> >>, << <<"p">> >>, 0))
  @@ (R2 :> RemotePage(<< <<"B", "?">> >>, <<>>, <<>>, 0))

InitCommon ==
  /\ remote = InitRemote
  /\ now = 1
  /\ nextId = 0
  /\ run = IdleRun
  /\ prev = NoPrev
  /\ budget = [runs |-> 0, edits |-> 0]
  /\ call = NoCall

Init ==
  /\ InitCommon
  /\ \/ config = Config("db", "F", <<StatusMapping>>) /\ conflictResolution \in Policies
     \/ /\ config \in {Config("db", "F", <<>>), Config("", "F", <<StatusMapping>>),
                        Config("db", "", <<StatusMapping>>), PullConfig}
        /\ conflictResolution = "newer-wins"
  /\ \/ vault = [p \in {} |-> UserNote] /\ folderExists \in BOOLEAN
     \/ vault = ([folder |-> config.obsidianFolder, name |-> <<"Y">>] :> UserNote)
        /\ folderExists = TRUE
  /\ hist = IdleHist
  /\ settings = [syncConfigs |-> <<config>>, autoSync |-> FALSE]
  /\ batch = IdleBatch

(***************************************************************************)
(* syncConfig: validation and direction resolution (no I/O yet).           *)
(***************************************************************************)
FirstStep(actualDirection) ==
  CASE actualDirection = NOTION_TO_OBSIDIAN -> "pull_fetch"
    [] actualDirection = OBSIDIAN_TO_NOTION -> "push_list"
    [] actualDirection = BIDIRECTIONAL -> "merge_fetch"

\* mutant: the direction is executed as requested
ResolvedDirectionKept(direction) == direction

ResolvedDirection(direction) ==
  IF Len(config.fieldMappings) = 0 /\ direction = BIDIRECTIONAL
  THEN NOTION_TO_OBSIDIAN ELSE direction

\* mutant: the folder check is missing
ValidationErrorNoFolder(direction) ==
  IF config.notionDatabaseId = "" THEN "No Notion database ID specified"
  ELSE IF Len(config.fieldMappings) = 0 /\ direction = OBSIDIAN_TO_NOTION
  THEN "Cannot sync from Obsidian to Notion without field mappings"
  ELSE ""

\* the throws of the validation block, "" when it passes
ValidationError(direction) ==
  IF config.notionDatabaseId = "" THEN "No Notion database ID specified"
  ELSE IF config.obsidianFolder = "" THEN "No Obsidian folder specified"
  ELSE IF Len(config.fieldMappings) = 0 /\ direction = OBSIDIAN_TO_NOTION
  THEN "Cannot sync from Obsidian to Notion without field mappings"
  ELSE ""

\* syncConfig(config, overrideDirection) up to its first awaited call
Enter(overrideDirection) ==
  /\ LET direction == IF overrideDirection # "" THEN overrideDirection
                      ELSE config.syncDirection
         started == [IdleRun EXCEPT !.overrideDirection = overrideDirection,
                                    !.direction = direction]
     IN IF ValidationError(direction) # ""
        THEN run' = [started EXCEPT !.pc = "failed",
                                    !.error = [config |-> config.name,
                                               message |-> ValidationError(direction)]]
        ELSE run' = [started EXCEPT !.pc = FirstStep(ResolvedDirection(direction)),
                                    !.actualDirection = ResolvedDirection(direction)]
  /\ hist' = [IdleHist EXCEPT !.preVault = vault, !.preRemote = remote,
                               !.preLastSync = config.lastSync,
                               !.faults = hist.faults]
  /\ now' = now + 1
  /\ UNCHANGED <<remote, vault, folderExists, conflictResolution, nextId, prev>>

\* the Sync button of one configuration, with or without a chosen direction
StartSync(overrideDirection) ==
  /\ run.pc = "idle"
  /\ budget.runs < MaxRuns
  /\ Enter(overrideDirection)
  /\ budget' = [budget EXCEPT !.runs = @ + 1]
  /\ UNCHANGED <<config, settings, batch>>

\* config.lastSync = Date.now(); saveSettings (a failure of the save is caught)
\* the configuration is an element of settings.syncConfigs: the list sees the write
Stored(list, cfg) == [k \in DOMAIN list |-> IF list[k].name = cfg.name THEN cfg ELSE list[k]]

\* mutant: the run also stores the direction it resolved into the configuration
StampedWithDirection(cfg) == [cfg EXCEPT !.lastSync = now, !.syncDirection = run.actualDirection]

\* config.lastSync = Date.now(), the only write syncConfig makes to the configuration
Stamped(cfg) == [cfg EXCEPT !.lastSync = now]

Finish ==
  /\ run.pc = "finish"
  /\ config' = Stamped(config)
  /\ settings' = [settings EXCEPT !.syncConfigs = Stored(@, config')]
  /\ run' = [run EXCEPT !.pc = "done"]
  /\ UNCHANGED <<remote, vault, folderExists, conflictResolution, now, nextId, hist, prev, budget, batch>>

\* the promise of syncConfig settles; the caller may start the next run
Settle ==
  /\ run.pc \in {"done", "failed"}
  /\ prev' = [pc |-> run.pc, actualDirection |-> run.actualDirection,
              errorCount |-> run.errorCount, written |-> hist.written,
              resolved |-> hist.resolved,
              remoteEdited |-> FALSE, localEdited |-> FALSE]
  /\ run' = IdleRun
  /\ hist' = [IdleHist EXCEPT !.faults = hist.faults]
  /\ UNCHANGED <<remote, vault, folderExists, config, conflictResolution, now, nextId, budget>>

\* the click handler of the Sync button gets the result
Return ==
  /\ batch.pc = "idle"
  /\ Settle
  /\ UNCHANGED <<settings, batch>>

(***************************************************************************)
(* syncNotionToObsidian (pull).                                            *)
(***************************************************************************)
\* getDatabasePages: the query fails as a whole, or every page is returned,
\* those whose getPageContent failed with empty content
\* mutant: a failed query is swallowed and treated as an empty database
FetchSwallowed == [run EXCEPT !.notionPages = <<>>, !.pc = "finish"]

\* getDatabasePages rejects; nothing in the callers catches it before syncConfig
FetchThrown == Thrown("getDatabasePages failed")

FetchPages(okStep, emptyStep) ==
  \/ /\ CanFail
     /\ run' = FetchThrown
     /\ hist' = [hist EXCEPT !.io = @ + 1, !.fetchFailed = TRUE, !.faults = @ + 1]
  \/ \E order \in Perms(DOMAIN remote), noContent \in SUBSET (DOMAIN remote) :
        /\ hist.faults + Cardinality(noContent) <= MaxFaults
        /\ run' = [run EXCEPT
                     !.notionPages = [k \in 1..Len(order) |->
                                        NotionPage(order[k], order[k] \in noContent)],
                     !.pc = IF Len(order) = 0 THEN emptyStep ELSE okStep,
                     !.i = 1]
        /\ hist' = [hist EXCEPT !.io = @ + 1, !.faults = @ + Cardinality(noContent)]

PullFetch ==
  /\ run.pc = "pull_fetch"
  /\ FetchPages("pull_folder", "finish")
  /\ UNCHANGED <<remote, vault, folderExists, config, conflictResolution, now, nextId, prev, budget, settings, batch>>

\* ensureFolderExists: createFolder only when the folder is missing
PullEnsureFolder ==
  /\ run.pc = "pull_folder"
  /\ \/ /\ folderExists' = TRUE
        /\ run' = [run EXCEPT !.pc = "pull_loop"]
        /\ hist' = [hist EXCEPT !.io = @ + (IF folderExists THEN 0 ELSE 1)]
     \/ /\ ~folderExists
        /\ CanFail
        /\ UNCHANGED folderExists
        /\ run' = Thrown("createFolder failed")
        /\ hist' = [hist EXCEPT !.io = @ + 1, !.faults = @ + 1]
  /\ UNCHANGED <<remote, vault, config, conflictResolution, now, nextId, prev, budget, settings, batch>>

\* the content both pull and merge write for a page
PageContent(page) ==
  createMarkdownContent(
    Put(Put(convertNotionPropertiesToFrontmatter(page.properties, config),
            "notionId", page.id),
        "lastNotionSync", ToISOString(page.lastModified)),
    page.content)

PagePath(page) == FilePath(config, getFileNameFromPage(page, config))

\* mutant: the catch block forgets to count the failure
PullCaughtUncounted == [run EXCEPT !.i = @ + 1]

\* the catch block of the loop: count the failure, go on with the next page
PullCaught == [run EXCEPT !.i = @ + 1, !.errorCount = @ + 1]

\* one iteration of the for loop over notionPages, with its try/catch
PullRecord ==
  /\ run.pc = "pull_loop"
  /\ run.i <= Len(run.notionPages)
  /\ LET page == run.notionPages[run.i]
         filePath == PagePath(page)
         existingFile == filePath \in DOMAIN vault
     IN \/ /\ vault' = VaultWrite(vault, filePath, PageContent(page))
           /\ UNCHANGED now
           /\ run' = [run EXCEPT !.i = @ + 1,
                                 !.updatedCount = @ + (IF existingFile THEN 1 ELSE 0),
                                 !.createdCount = @ + (IF existingFile THEN 0 ELSE 1)]
           /\ hist' = [hist EXCEPT !.io = @ + 1, !.localWrites = @ + 1,
                                   !.written = Put(@, page.id,
                                                   [path |-> filePath,
                                                    existed |-> existingFile])]
        \/ /\ CanFail
           /\ UNCHANGED <<vault, now>>
           /\ run' = PullCaught
           /\ hist' = [hist EXCEPT !.io = @ + 1, !.itemFailures = @ + 1, !.faults = @ + 1]
  /\ UNCHANGED <<remote, folderExists, config, conflictResolution, nextId, prev, budget, settings, batch>>

PullEnd ==
  /\ run.pc = "pull_loop"
  /\ run.i > Len(run.notionPages)
  /\ run' = [run EXCEPT !.pc = "finish"]
  /\ UNCHANGED <<remote, vault, folderExists, config, conflictResolution, now, nextId, hist, prev, budget, settings, batch>>


(***************************************************************************)
(* syncObsidianToNotion (push).                                            *)
(***************************************************************************)
\* getAbstractFileByPath(folder) and getAllMarkdownFiles: no I/O, vault index
PushList ==
  /\ run.pc = "push_list"
  /\ IF ~folderExists
     THEN run' = Thrown("Folder not found")
     ELSE \E order \in Perms(FolderPaths) :
             run' = [run EXCEPT !.files = order, !.pc = "push_loop", !.i = 1]
  /\ UNCHANGED <<remote, vault, folderExists, config, conflictResolution, now, nextId, hist, prev, budget, settings, batch>>

\* mutant: the write-back stamps the time and leaves the page id out
LinkedContentNoId(note, pageId) ==
  createMarkdownContent(Put(note.frontmatter, "lastObsidianSync", ToISOString(now)),
                        note.content)

\* the file content that links a note to the page created for it
LinkedContent(note, pageId) ==
  createMarkdownContent(
    Put(Put(note.frontmatter, "notionId", pageId), "lastObsidianSync", ToISOString(now)),
    note.content)

\* the file content written after the note was pushed to its page
StampedContent(note) ==
  createMarkdownContent(Put(note.frontmatter, "lastObsidianSync", ToISOString(now)),
                        note.content)

CreateCall(note) ==
  [path |-> note.path, notionId |-> note.notionId,
   inSnapshot |-> \E k \in 1..Len(run.notionPages) : run.notionPages[k].id = note.notionId,
   direction |-> run.actualDirection, pageId |-> NewPageId,
   diskId |-> parseMarkdownFile(note.path, vault[note.path]).notionId]

\* one iteration of the for loop over files, with its try/catch
PushFile ==
  /\ run.pc = "push_loop"
  /\ run.i <= Len(run.files)
  /\ LET file == run.files[run.i]
         note == parseMarkdownFile(file, vault[file])
         notionProperties == convertFrontmatterToNotionProperties(note.frontmatter, config)
         caught == [run EXCEPT !.i = @ + 1]
     IN \/ \* vault.read throws
           /\ CanFail
           /\ run' = caught
           /\ hist' = [hist EXCEPT !.io = @ + 1, !.itemFailures = @ + 1, !.faults = @ + 1]
           /\ UNCHANGED <<remote, vault, now, nextId>>
        \/ \* the note carries a notionId: updatePage
           /\ note.notionId # Undefined
           /\ \E stage \in PossibleStages(note.notionId, note.content) :
                 /\ stage = "done" \/ note.notionId \notin DOMAIN remote \/ CanFail
                 /\ remote' = IF note.notionId \in DOMAIN remote
                              THEN Put(remote, note.notionId,
                                       UpdatedPage(remote[note.notionId], notionProperties,
                                                   note.content, stage))
                              ELSE remote
                 /\ run' = IF stage = "done" THEN [caught EXCEPT !.updatedCount = @ + 1]
                           ELSE caught
                 /\ hist' = [hist EXCEPT !.io = @ + 2,
                                         !.remoteWrites = @ + (IF stage = "noPatch" THEN 0 ELSE 1),
                                         !.itemFailures = @ + (IF stage = "done" THEN 0 ELSE 1),
                                         !.faults = @ + (IF stage = "done" \/ note.notionId \notin DOMAIN remote
                                                         THEN 0 ELSE 1)]
           /\ UNCHANGED <<vault, now, nextId>>
        \/ \* no notionId: createPage throws
           /\ note.notionId = Undefined
           /\ CanFail
           /\ run' = caught
           /\ hist' = [hist EXCEPT !.io = @ + 2, !.itemFailures = @ + 1, !.faults = @ + 1]
           /\ UNCHANGED <<remote, vault, now, nextId>>
        \/ \* no notionId: createPage succeeds, then the id is written back or not
           /\ note.notionId = Undefined
           /\ remote' = Put(remote, NewPageId, CreatedPage(notionProperties, note.content))
           /\ nextId' = nextId + 1
           /\ UNCHANGED now
           /\ \/ /\ vault' = VaultWrite(vault, file, LinkedContent(note, NewPageId))
                 /\ run' = [caught EXCEPT !.createdCount = @ + 1]
                 /\ hist' = [hist EXCEPT !.io = @ + 3, !.remoteWrites = @ + 1,
                                         !.localWrites = @ + 1,
                                         !.creates = @ \cup {CreateCall(note)}]
              \/ /\ CanFail
                 /\ UNCHANGED vault
                 /\ run' = caught
                 /\ hist' = [hist EXCEPT !.io = @ + 3, !.remoteWrites = @ + 1,
                                         !.itemFailures = @ + 1, !.faults = @ + 1,
                                         !.creates = @ \cup {CreateCall(note)}]
  /\ UNCHANGED <<folderExists, config, conflictResolution, prev, budget, settings, batch>>

PushEnd ==
  /\ run.pc = "push_loop"
  /\ run.i > Len(run.files)
  /\ run' = [run EXCEPT !.pc = "finish"]
  /\ UNCHANGED <<remote, vault, folderExists, config, conflictResolution, now, nextId, hist, prev, budget, settings, batch>>


(***************************************************************************)
(* syncBidirectional (merge).  It has no try/catch: whatever an awaited    *)
(* call throws leaves the loops and is rethrown by syncConfig.             *)
(***************************************************************************)
MergeFetch ==
  /\ run.pc = "merge_fetch"
  /\ FetchPages("merge_read", "merge_read")
  /\ UNCHANGED <<remote, vault, folderExists, config, conflictResolution, now, nextId, prev, budget, settings, batch>>

\* Promise.all over vault.read of every markdown file of the folder
MergeRead ==
  /\ run.pc = "merge_read"
  /\ IF ~folderExists
     THEN /\ run' = [run EXCEPT !.obsidianNotes = <<>>, !.pc = "merge_pages", !.i = 1]
          /\ UNCHANGED hist
     ELSE \E order \in Perms(FolderPaths) :
             /\ run' = [run EXCEPT !.files = order, !.pc = "merge_reading"]
             /\ hist' = [hist EXCEPT !.io = @ + Len(order)]
  /\ UNCHANGED <<remote, vault, folderExists, config, conflictResolution, now, nextId, prev, budget, settings, batch>>

\* the reads settle: Promise.all gives the notes in the order of files, or rejects
\* with the first read that failed
MergeReadSettle ==
  /\ run.pc = "merge_reading"
  /\ \/ /\ run' = [run EXCEPT
                      !.obsidianNotes = [k \in 1..Len(run.files) |->
                                           parseMarkdownFile(run.files[k], vault[run.files[k]])],
                      !.files = <<>>, !.pc = "merge_pages", !.i = 1]
        /\ UNCHANGED hist
     \/ /\ run.files # <<>>
        /\ CanFail
        /\ run' = Thrown("vault.read failed")
        /\ hist' = [hist EXCEPT !.faults = @ + 1]
  /\ UNCHANGED <<remote, vault, folderExists, config, conflictResolution, now, nextId, prev, budget, settings, batch>>

\* the I/O calls of the run that have been made and have not settled: every step of
\* the run awaits its calls one after the other, the reads of MergeRead excepted
InFlight ==
  IF run.pc = "merge_reading" THEN Len(run.files)
  ELSE IF run.pc \in {"idle", "finish", "done", "failed"} THEN 0
  ELSE 1

\* new Map(notes.filter(n => n.notionId).map(n => [n.notionId, n])).get(id):
\* the last note of the list that carries the id, 0 when there is none
ObsidianMapGet(notes, id) ==
  LET hits == {k \in 1..Len(notes) : notes[k].notionId # Undefined /\ notes[k].notionId = id}
  IN IF hits = {} THEN 0 ELSE CHOOSE k \in hits : \A j \in hits : j <= k

NotionMapHas(pages, id) == \E k \in 1..Len(pages) : pages[k].id = id

\* mutant: the older side is applied
NewerSideReversed(notionModified, obsidianModified) ==
  IF notionModified < obsidianModified THEN "notion-wins" ELSE "obsidian-wins"

\* case 'newer-wins': if (notionModified > obsidianModified) ... else ...
NewerSide(notionModified, obsidianModified) ==
  IF notionModified > obsidianModified THEN "notion-wins" ELSE "obsidian-wins"

\* mutant: the manual policy applies the Notion side
PolicyOutcomeManualWrites(policy, page, note) ==
  CASE policy = "notion-wins" -> "notion-wins"
    [] policy = "obsidian-wins" -> "obsidian-wins"
    [] policy = "newer-wins" -> NewerSide(page.lastModified, note.lastModified)
    [] policy = "manual" -> "notion-wins"
    [] OTHER -> "no-change"

\* switch (this.settings.conflictResolution)
PolicyOutcome(policy, page, note) ==
  CASE policy = "notion-wins" -> "notion-wins"
    [] policy = "obsidian-wins" -> "obsidian-wins"
    [] policy = "newer-wins" -> NewerSide(page.lastModified, note.lastModified)
    [] policy = "manual" -> "conflict"
    [] OTHER -> "no-change"

\* mutant: the outcome depends on the position of the page in the fetched list
ConflictOutcomeByPosition(page, note) ==
  LET notionFrontmatter == convertNotionPropertiesToFrontmatter(page.properties, config)
      hasPropertyChanges == hasSignificantChanges(notionFrontmatter, note.frontmatter, config)
      hasContentChanges == normalizeContent(page.content) # normalizeContent(note.content)
  IN IF (~hasPropertyChanges /\ ~hasContentChanges) \/ run.i > 1 THEN "no-change"
     ELSE PolicyOutcome(conflictResolution, page, note)

\* what resolveConflict returns for a pair, before its writes are attempted
ConflictOutcome(page, note) ==
  LET notionFrontmatter == convertNotionPropertiesToFrontmatter(page.properties, config)
      hasPropertyChanges == hasSignificantChanges(notionFrontmatter, note.frontmatter, config)
      hasContentChanges == normalizeContent(page.content) # normalizeContent(note.content)
  IN IF ~hasPropertyChanges /\ ~hasContentChanges THEN "no-change"
     ELSE PolicyOutcome(conflictResolution, page, note)

\* one returned resolveConflict call: its arguments, the policy and the result
Resolved(page, note) ==
  [page |-> page, note |-> note, policy |-> conflictResolution,
   outcome |-> ConflictOutcome(page, note)]

\* createObsidianFromNotion: vault.create, which rejects an existing path
CreateObsidianFromNotion(page) ==
  LET filePath == PagePath(page) IN
  /\ UNCHANGED <<remote, nextId>>
  /\ \/ /\ filePath \notin DOMAIN vault
        /\ folderExists
        /\ vault' = VaultWrite(vault, filePath, PageContent(page))
        /\ UNCHANGED now
        /\ run' = [run EXCEPT !.i = @ + 1, !.createdCount = @ + 1]
        /\ hist' = [hist EXCEPT !.io = @ + 1, !.localWrites = @ + 1,
                                !.written = Put(@, page.id,
                                                [path |-> filePath, existed |-> FALSE])]
     \/ /\ filePath \in DOMAIN vault \/ ~folderExists
        /\ UNCHANGED <<vault, now>>
        /\ run' = Thrown("vault.create failed")
        /\ hist' = [hist EXCEPT !.io = @ + 1, !.itemFailures = @ + 1]
     \/ /\ filePath \notin DOMAIN vault /\ folderExists
        /\ CanFail
        /\ UNCHANGED <<vault, now>>
        /\ run' = Thrown("vault.create failed")
        /\ hist' = [hist EXCEPT !.io = @ + 1, !.itemFailures = @ + 1, !.faults = @ + 1]

\* updateObsidianFromNotion: modify the file at the derived path or create it
UpdateObsidianFromNotion(page, returned) ==
  LET filePath == PagePath(page) IN
  /\ UNCHANGED <<remote, nextId>>
  /\ \/ /\ vault' = VaultWrite(vault, filePath, PageContent(page))
        /\ UNCHANGED now
        /\ run' = [run EXCEPT !.i = @ + 1, !.notionToObsidian = @ + 1]
        /\ hist' = [hist EXCEPT !.io = @ + 1, !.localWrites = @ + 1,
                                !.resolved = @ \cup {returned},
                                !.written = Put(@, page.id,
                                                [path |-> filePath,
                                                 existed |-> filePath \in DOMAIN vault])]
     \/ /\ CanFail
        /\ UNCHANGED <<vault, now>>
        /\ run' = Thrown("vault write failed")
        /\ hist' = [hist EXCEPT !.io = @ + 1, !.itemFailures = @ + 1, !.faults = @ + 1]

\* updateNotionFromObsidian: updatePage, then stamp the note's file
UpdateNotionFromObsidian(note, returned) ==
  LET properties == convertFrontmatterToNotionProperties(note.frontmatter, config) IN
  /\ UNCHANGED nextId
  /\ UNCHANGED now
  /\ \E stage \in PossibleStages(note.notionId, note.content) :
        /\ stage = "done" \/ note.notionId \notin DOMAIN remote \/ CanFail
        /\ remote' = IF note.notionId \in DOMAIN remote
                     THEN Put(remote, note.notionId,
                              UpdatedPage(remote[note.notionId], properties,
                                          note.content, stage))
                     ELSE remote
        /\ \/ /\ stage = "done"
              /\ vault' = VaultWrite(vault, note.path, StampedContent(note))
              /\ run' = [run EXCEPT !.i = @ + 1, !.obsidianToNotion = @ + 1]
              /\ hist' = [hist EXCEPT !.io = @ + 3, !.remoteWrites = @ + 1,
                                      !.localWrites = @ + 1,
                                      !.resolved = @ \cup {returned}]
           \/ /\ stage = "done"
              /\ CanFail
              /\ UNCHANGED vault
              /\ run' = Thrown("vault.modify failed")
              /\ hist' = [hist EXCEPT !.io = @ + 3, !.remoteWrites = @ + 1,
                                      !.itemFailures = @ + 1, !.faults = @ + 1]
           \/ /\ stage # "done"
              /\ UNCHANGED vault
              /\ run' = Thrown("updatePage failed")
              /\ hist' = [hist EXCEPT !.io = @ + 2,
                                      !.remoteWrites = @ + (IF stage = "noPatch" THEN 0 ELSE 1),
                                      !.itemFailures = @ + 1,
                                      !.faults = @ + (IF note.notionId \in DOMAIN remote
                                                      THEN 1 ELSE 0)]

\* one iteration of the loop over notionPages
MergeRecord ==
  /\ run.pc = "merge_pages"
  /\ run.i <= Len(run.notionPages)
  /\ LET page == run.notionPages[run.i]
         k == ObsidianMapGet(run.obsidianNotes, page.id)
         returned == Resolved(page, run.obsidianNotes[k])
     IN IF k = 0 THEN CreateObsidianFromNotion(page)
        ELSE CASE returned.outcome = "notion-wins" ->
                    UpdateObsidianFromNotion(page, returned)
               [] returned.outcome = "obsidian-wins" ->
                    UpdateNotionFromObsidian(run.obsidianNotes[k], returned)
               [] returned.outcome = "conflict" ->
                    /\ run' = [run EXCEPT !.i = @ + 1, !.conflicts = @ + 1]
                    /\ hist' = [hist EXCEPT !.resolved = @ \cup {returned}]
                    /\ UNCHANGED <<remote, vault, now, nextId>>
               [] OTHER ->
                    /\ run' = [run EXCEPT !.i = @ + 1]
                    /\ hist' = [hist EXCEPT !.resolved = @ \cup {returned}]
                    /\ UNCHANGED <<remote, vault, now, nextId>>
  /\ UNCHANGED <<folderExists, config, conflictResolution, prev, budget, settings, batch>>

MergePagesEnd ==
  /\ run.pc = "merge_pages"
  /\ run.i > Len(run.notionPages)
  /\ run' = [run EXCEPT !.pc = "merge_notes", !.i = 1]
  /\ UNCHANGED <<remote, vault, folderExists, config, conflictResolution, now, nextId, hist, prev, budget, settings, batch>>

\* mutant: the second loop creates a page for every note
NeedsRemoteAlways(note) == TRUE

\* does the second loop create a page for this note
NeedsRemote(note) ==
  note.notionId = Undefined \/ ~NotionMapHas(run.notionPages, note.notionId)

\* createNotionFromObsidian: createPage, then write the id into the note's file
CreateNotionFromObsidian(note) ==
  LET properties == convertFrontmatterToNotionProperties(note.frontmatter, config) IN
  \/ /\ CanFail
     /\ run' = Thrown("createPage failed")
     /\ hist' = [hist EXCEPT !.io = @ + 1, !.itemFailures = @ + 1, !.faults = @ + 1]
     /\ UNCHANGED <<remote, vault, now, nextId>>
  \/ /\ remote' = Put(remote, NewPageId, CreatedPage(properties, note.content))
     /\ nextId' = nextId + 1
     /\ UNCHANGED now
     /\ \/ /\ vault' = VaultWrite(vault, note.path, LinkedContent(note, NewPageId))
           /\ run' = [run EXCEPT !.i = @ + 1, !.createdCount = @ + 1]
           /\ hist' = [hist EXCEPT !.io = @ + 2, !.remoteWrites = @ + 1,
                                   !.localWrites = @ + 1,
                                   !.creates = @ \cup {CreateCall(note)}]
        \/ /\ CanFail
           /\ UNCHANGED vault
           /\ run' = Thrown("vault.modify failed")
           /\ hist' = [hist EXCEPT !.io = @ + 2, !.remoteWrites = @ + 1,
                                   !.itemFailures = @ + 1, !.faults = @ + 1,
                                   !.creates = @ \cup {CreateCall(note)}]

\* one iteration of the loop over obsidianNotes
MergeNote ==
  /\ run.pc = "merge_notes"
  /\ run.i <= Len(run.obsidianNotes)
  /\ LET note == run.obsidianNotes[run.i] IN
       IF NeedsRemote(note) THEN CreateNotionFromObsidian(note)
       ELSE /\ run' = [run EXCEPT !.i = @ + 1]
            /\ UNCHANGED <<remote, vault, now, nextId, hist>>
  /\ UNCHANGED <<folderExists, config, conflictResolution, prev, budget, settings, batch>>

MergeNotesEnd ==
  /\ run.pc = "merge_notes"
  /\ run.i > Len(run.obsidianNotes)
  /\ run' = [run EXCEPT !.pc = "finish"]
  /\ UNCHANGED <<remote, vault, folderExists, config, conflictResolution, now, nextId, hist, prev, budget, settings, batch>>


(***************************************************************************)
(* The users: edits made in Notion and in the vault between two runs.      *)
(***************************************************************************)
EditValues(name) == IF name = "Name" THEN {<< <<"B">> >>, << <<"Y">> >>} ELSE {<< <<"w">> >>}

Edited ==
  /\ budget' = [budget EXCEPT !.edits = @ + 1]
  /\ now' = now + 1
  /\ UNCHANGED <<folderExists, config, conflictResolution, nextId, run, hist, settings, batch>>

CanEdit == run.pc = "idle" /\ budget.edits < MaxEdits

\* a page is renamed, or one of its other properties is edited, in Notion
EditRemoteProperty ==
  /\ CanEdit
  /\ \E id \in DOMAIN remote, name \in {"Name", "Status"} :
     \E value \in EditValues(name) :
        /\ remote[id].properties[name].segs # value
        /\ remote' = [remote EXCEPT ![id].properties[name].segs = value,
                                    ![id].last_edited_time = now + 1]
  /\ prev' = [prev EXCEPT !.remoteEdited = TRUE]
  /\ UNCHANGED vault
  /\ Edited

\* the body of a page is edited in Notion
EditRemoteBody ==
  /\ CanEdit
  /\ \E id \in DOMAIN remote, blocks \in {<< <<"q">> >>} :
        /\ remote[id].blocks # blocks
        /\ remote' = [remote EXCEPT ![id].blocks = blocks, ![id].last_edited_time = now + 1]
  /\ prev' = [prev EXCEPT !.remoteEdited = TRUE]
  /\ UNCHANGED vault
  /\ Edited

\* a page is deleted in Notion
DeleteRemote ==
  /\ CanEdit
  /\ \E id \in DOMAIN remote :
        remote' = [x \in DOMAIN remote \ {id} |-> remote[x]]
  /\ prev' = [prev EXCEPT !.remoteEdited = TRUE]
  /\ UNCHANGED vault
  /\ Edited

\* the user edits the text of a note, or sets a front-matter entry of it
EditLocal ==
  /\ CanEdit
  /\ \E p \in DOMAIN vault :
        \/ /\ vault[p].rest # <<"q">>
           /\ vault' = [vault EXCEPT ![p].rest = <<"q">>, ![p].mtime = now + 1]
        \/ /\ vault' = [vault EXCEPT ![p].fm = Put(@, "status", <<"w">>), ![p].mtime = now + 1]
           /\ vault[p].fm # vault'[p].fm
  /\ prev' = [prev EXCEPT !.localEdited = TRUE]
  /\ UNCHANGED remote
  /\ Edited

(***************************************************************************)
(* syncAll and its callers: the auto-sync timer, the commands and the      *)
(* "Sync All Enabled" button.  One syncAll call is followed through its    *)
(* loop; a call made while that one is in flight is counted in             *)
(* batch.inFlight and not followed further.                                *)
(***************************************************************************)
\* syncAll(direction) from its entry to the for loop
Begin(direction, button) ==
  [IdleBatch EXCEPT !.pc = IF Len(settings.syncConfigs) = 0 THEN "done" ELSE "loop",
                    !.direction = direction, !.k = 1,
                    !.notices = IF Len(settings.syncConfigs) = 0 THEN 2 ELSE 1,
                    !.button = button,
                    !.inFlight = batch.inFlight + 1,
                    !.calls = batch.calls + 1]

\* this.syncManager.syncAll(direction): nothing looks for a call in flight.
\* An event is handled when no code runs: no call in flight, or the call in
\* flight is waiting for its current syncConfig.
Call(direction, button) ==
  /\ batch.calls < MaxCalls
  /\ batch.pc \in {"idle", "await"}
  /\ batch' = IF batch.pc = "idle" THEN Begin(direction, button)
              ELSE [batch EXCEPT !.inFlight = @ + 1, !.calls = @ + 1,
                                 !.button = @ \/ button]
  /\ UNCHANGED <<remote, vault, folderExists, config, conflictResolution, now, nextId,
                 run, hist, prev, budget, settings>>

\* window.setInterval(() => this.syncManager.syncAll(), ...), armed when autoSync is set
AutoSyncTimer ==
  /\ settings.autoSync
  /\ Call("", FALSE)

\* the commands sync-all-configs, notion-to-obsidian and obsidian-to-notion
SyncCommand ==
  \E direction \in {"", NOTION_TO_OBSIDIAN, OBSIDIAN_TO_NOTION} : Call(direction, FALSE)

\* the button of the sync modal; it is disabled until its call has settled
SyncAllButton ==
  /\ ~batch.button
  /\ \E direction \in {"", NOTION_TO_OBSIDIAN} : Call(direction, TRUE)

\* if (!config.enabled) continue
SyncAllSkip ==
  /\ batch.pc = "loop"
  /\ batch.k <= Len(settings.syncConfigs)
  /\ ~settings.syncConfigs[batch.k].enabled
  /\ batch' = [batch EXCEPT !.k = @ + 1, !.skipped = @ \cup {batch.k}]
  /\ UNCHANGED <<remote, vault, folderExists, config, conflictResolution, now, nextId,
                 run, hist, prev, budget, settings>>

\* the loop variable is bound to the next enabled configuration
SyncAllSelect ==
  /\ batch.pc = "loop"
  /\ batch.k <= Len(settings.syncConfigs)
  /\ settings.syncConfigs[batch.k].enabled
  /\ config' = settings.syncConfigs[batch.k]
  /\ batch' = [batch EXCEPT !.pc = "call"]
  /\ UNCHANGED <<remote, vault, folderExists, conflictResolution, now, nextId,
                 run, hist, prev, budget, settings>>

\* await this.syncConfig(config, direction)
SyncAllCall ==
  /\ batch.pc = "call"
  /\ run.pc = "idle"
  /\ Enter(batch.direction)
  /\ batch' = [batch EXCEPT !.pc = "await", !.called = Append(@, batch.k)]
  /\ UNCHANGED <<config, budget, settings>>

\* mutant: the loop is left when a configuration fails
AfterConfigStopOnError(settled) ==
  IF settled = "done"
  THEN [batch EXCEPT !.pc = "loop", !.k = @ + 1, !.successCount = @ + 1]
  ELSE [batch EXCEPT !.pc = "loop", !.k = Len(settings.syncConfigs) + 1,
                     !.errorCount = @ + 1, !.notices = @ + 1]

\* successCount++ after the await, errorCount++ and a Notice in the catch
AfterConfig(settled) ==
  IF settled = "done"
  THEN [batch EXCEPT !.pc = "loop", !.k = @ + 1, !.successCount = @ + 1]
  ELSE [batch EXCEPT !.pc = "loop", !.k = @ + 1, !.errorCount = @ + 1, !.notices = @ + 1]

SyncAllSettle ==
  /\ batch.pc = "await"
  /\ Settle
  /\ batch' = AfterConfig(run.pc)
  /\ UNCHANGED settings

\* the loop is over: the closing Notice
SyncAllEnd ==
  /\ batch.pc = "loop"
  /\ batch.k > Len(settings.syncConfigs)
  /\ batch' = [batch EXCEPT !.pc = "done", !.notices = @ + 1]
  /\ UNCHANGED <<remote, vault, folderExists, config, conflictResolution, now, nextId,
                 run, hist, prev, budget, settings>>

\* the promise of syncAll resolves
SyncAllReturn ==
  /\ batch.pc = "done"
  /\ batch' = [IdleBatch EXCEPT !.inFlight = batch.inFlight - 1, !.calls = batch.calls,
                                !.button = FALSE]
  /\ UNCHANGED <<remote, vault, folderExists, config, conflictResolution, now, nextId,
                 run, hist, prev, budget, settings>>

\* the configurations of the list: enabled, disabled, without database id
ConfigKinds ==
  {Config("db", "F", <<StatusMapping>>),
   [Config("db", "F", <<StatusMapping>>) EXCEPT !.enabled = FALSE],
   Config("", "F", <<StatusMapping>>)}

Named(kinds) == [k \in DOMAIN kinds |-> [kinds[k] EXCEPT !.name = ToString(k)]]

\* the loop variable before the first call
NoConfig == [Config("", "", <<>>) EXCEPT !.name = ""]

InitSyncAll ==
  /\ InitCommon
  /\ conflictResolution = "newer-wins"
  /\ vault = [p \in {} |-> UserNote]
  /\ folderExists = TRUE
  /\ hist = IdleHist
  /\ config = NoConfig
  /\ batch = IdleBatch
  /\ \E n \in 0..MaxConfigs : \E kinds \in [1..n -> ConfigKinds] :
        /\ settings \in [syncConfigs : {Named(kinds)}, autoSync : BOOLEAN]

NextSyncAll ==
  \/ AutoSyncTimer /\ UNCHANGED call
  \/ SyncCommand /\ UNCHANGED call
  \/ SyncAllButton /\ UNCHANGED call
  \/ SyncAllSkip /\ UNCHANGED call
  \/ SyncAllSelect /\ UNCHANGED call
  \/ SyncAllCall /\ UNCHANGED call
  \/ SyncAllSettle /\ UNCHANGED call
  \/ SyncAllEnd /\ UNCHANGED call
  \/ SyncAllReturn /\ UNCHANGED call
  \/ Finish /\ UNCHANGED call
  \/ PullFetch /\ UNCHANGED call
  \/ PullEnsureFolder /\ UNCHANGED call
  \/ PullRecord /\ UNCHANGED call
  \/ PullEnd /\ UNCHANGED call
  \/ PushList /\ UNCHANGED call
  \/ PushFile /\ UNCHANGED call
  \/ PushEnd /\ UNCHANGED call
  \/ MergeFetch /\ UNCHANGED call
  \/ MergeRead /\ UNCHANGED call
  \/ MergeReadSettle /\ UNCHANGED call
  \/ MergeRecord /\ UNCHANGED call
  \/ MergePagesEnd /\ UNCHANGED call
  \/ MergeNote /\ UNCHANGED call
  \/ MergeNotesEnd /\ UNCHANGED call

SpecSyncAll == InitSyncAll /\ [][NextSyncAll]_vars

Next ==
  \/ \E d \in Directions \cup {""} : StartSync(d) /\ UNCHANGED call
  \/ Finish /\ UNCHANGED call
  \/ Return /\ UNCHANGED call
  \/ PullFetch /\ UNCHANGED call
  \/ PullEnsureFolder /\ UNCHANGED call
  \/ PullRecord /\ UNCHANGED call
  \/ PullEnd /\ UNCHANGED call
  \/ PushList /\ UNCHANGED call
  \/ PushFile /\ UNCHANGED call
  \/ PushEnd /\ UNCHANGED call
  \/ MergeFetch /\ UNCHANGED call
  \/ MergeRead /\ UNCHANGED call
  \/ MergeReadSettle /\ UNCHANGED call
  \/ MergeRecord /\ UNCHANGED call
  \/ MergePagesEnd /\ UNCHANGED call
  \/ MergeNote /\ UNCHANGED call
  \/ MergeNotesEnd /\ UNCHANGED call
  \/ EditRemoteProperty /\ UNCHANGED call
  \/ EditRemoteBody /\ UNCHANGED call
  \/ DeleteRemote /\ UNCHANGED call
  \/ EditLocal /\ UNCHANGED call

Spec == Init /\ [][Next]_vars

\* the runs of C1: pull and merge only
NextPullMerge ==
  \/ \E d \in {NOTION_TO_OBSIDIAN, BIDIRECTIONAL, ""} : StartSync(d) /\ UNCHANGED call
  \/ Finish /\ UNCHANGED call
  \/ Return /\ UNCHANGED call
  \/ PullFetch /\ UNCHANGED call
  \/ PullEnsureFolder /\ UNCHANGED call
  \/ PullRecord /\ UNCHANGED call
  \/ PullEnd /\ UNCHANGED call
  \/ MergeFetch /\ UNCHANGED call
  \/ MergeRead /\ UNCHANGED call
  \/ MergeReadSettle /\ UNCHANGED call
  \/ MergeRecord /\ UNCHANGED call
  \/ MergePagesEnd /\ UNCHANGED call
  \/ MergeNote /\ UNCHANGED call
  \/ MergeNotesEnd /\ UNCHANGED call
  \/ EditRemoteProperty /\ UNCHANGED call
  \/ EditRemoteBody /\ UNCHANGED call
  \/ DeleteRemote /\ UNCHANGED call
  \/ EditLocal /\ UNCHANGED call

SpecPullMerge == Init /\ [][NextPullMerge]_vars

(***************************************************************************)
(* resolveConflict on its own: merge runs over a vault that already holds  *)
(* the note of page r1, as an earlier pull and the user's edits left it.   *)
(***************************************************************************)
\* a note written by a pull of the page and edited since
LinkedNote(id, status, body, t) ==
  File([notionId |-> id, status |-> status, lastNotionSync |-> ToISOString(0)],
       <<"\n">> \o body, t)

NoteStatuses == {<<"u">>, <<" ", "u">>, <<"w">>}
NoteBodies == {<<"p">>, <<"p", "\r", "\n">>, <<"q">>}

InitResolve ==
  /\ call = NoCall
  /\ now = 1
  /\ nextId = 0
  /\ run = IdleRun
  /\ prev = NoPrev
  /\ hist = IdleHist
  /\ budget = [runs |-> 0, edits |-> 0]
  /\ batch = IdleBatch
  /\ config = Config("db", "F", <<StatusMapping>>)
  /\ settings = [syncConfigs |-> <<config>>, autoSync |-> FALSE]
  /\ conflictResolution \in Policies
  /\ folderExists = TRUE
  /\ \E t \in {0, 1} : remote = [InitRemote EXCEPT ![R1].last_edited_time = t]
  /\ \E status \in NoteStatuses, body \in NoteBodies, t \in {0, 1} :
        vault = ([folder |-> "F", name |-> <<"A">>] :> LinkedNote(R1, status, body, t))

NextResolve ==
  \/ StartSync(BIDIRECTIONAL) /\ UNCHANGED call
  \/ Finish /\ UNCHANGED call
  \/ Return /\ UNCHANGED call
  \/ MergeFetch /\ UNCHANGED call
  \/ MergeRead /\ UNCHANGED call
  \/ MergeReadSettle /\ UNCHANGED call
  \/ MergeRecord /\ UNCHANGED call
  \/ MergePagesEnd /\ UNCHANGED call
  \/ MergeNote /\ UNCHANGED call
  \/ MergeNotesEnd /\ UNCHANGED call

SpecResolve == InitResolve /\ [][NextResolve]_vars

(***************************************************************************)
(* The codec functions on their own: the initial state holds the arguments *)
(* of one call, the action of the function applies it.                     *)
(***************************************************************************)
\* the texts of at most n characters over an alphabet
RECURSIVE Texts(_, _)
Texts(chars, n) ==
  IF n = 0 THEN {<<>>}
  ELSE LET shorter == Texts(chars, n - 1)
       IN shorter \cup {Append(t, c) : t \in shorter, c \in chars}

\* front-matter values: strings, numbers, booleans and lists of strings
ValueInputs ==
  [t : {"string"}, v : {<<s>> : s \in Texts({"a", "5", "\"", ",", ":", "\n"}, MaxText)}]
  \cup [t : {"number"}, v : {<<NumberText(n)>> : n \in {0, 7, 12}}]
  \cup [t : {"boolean"}, v : {<<BooleanText(b)>> : b \in BOOLEAN}]
  \cup [t : {"list"},
        v : UNION {[1..n -> {<<>>, <<"a">>, <<"a", ",">>}] : n \in 0..MaxText}]

\* objects of at most MaxEntries entries, with the keys k1, k2, ...
FrontmatterInputs ==
  UNION {{[i \in 1..n |-> [key |-> <<"k", Digits[i + 1]>>, t |-> vs[i].t, v |-> vs[i].v]] :
            vs \in [1..n -> ValueInputs]} : n \in 0..MaxEntries}

ContentInputs == {<<>>, <<"p">>, <<"\n", "p">>, <<"p", "\n", "q", "\n">>}

Pending(op, in) == [op |-> op, in |-> in, done |-> FALSE, out |-> <<>>]

Returned(out) == [call EXCEPT !.done = TRUE, !.out = out]

Hello == <<"H", "e", "l", "l", "o">>

\* property values as the API returns them, one of them of a type without a case
PropertyInputs ==
  {TitleProp(<<Hello>>), TitleProp(<<>>)}
  \cup [type : {"checkbox"}, segs : {<<BooleanText(b)>> : b \in BOOLEAN}]
  \cup [type : {"number", "select"}, segs : {<<>>, <<<<"7">>>>}]
  \cup [type : {"button"}, segs : {<<>>}]

PropertyNames == {"Name", "Done", "Due Date", "due_date"}

\* pages with at most one title property, as a database has, under either name
TitleInputs ==
  {<<>>, <<<<"A">>>>, <<<<" ">>>>, <<<<>>, <<"A">>>>, <<<<"?">>>>,
   <<<<" ", "B", "?", " ", " ", "c">>>>, <<[i \in 1..(MaxFileNameLen + 1) |-> "a"]>>}

PageInputs ==
  [id : {<<"a", "b", "c", "1", "2", "3", "4", "5", "x", "y", "z">>, <<"r", "1">>},
   properties : {[n \in {"Status"} |-> TextProp(<<<<"u">>>>)]}
                \cup {[n \in {name, "Status"} |->
                         IF n = "Status" THEN TextProp(<<<<"u">>>>) ELSE TitleProp(segs)] :
                        name \in {"Name", "Subtitle"}, segs \in TitleInputs}]

MappingFor(name) ==
  [notionProperty |-> name, obsidianProperty |-> ToLowerCase(name), type |-> "text"]

MappingInputs ==
  {<<>>, <<MappingFor("Status")>>, <<MappingFor("Name")>>, <<MappingFor("Subtitle")>>,
   <<MappingFor("Status"), MappingFor("Name")>>,
   <<MappingFor("Subtitle"), MappingFor("Name")>>}

FileNameCalls ==
  {Pending("getFileNameFromPage", [page |-> page, fieldMappings |-> ms]) :
      page \in PageInputs, ms \in MappingInputs}

\* a front-matter with or without the entry count, pushed under a number mapping
CountInputs ==
  {EmptyMap} \cup {[k \in {"count"} |-> v] :
                     v \in {<<>>, <<" ">>, <<"a">>, <<"0">>, <<"5">>, <<"-", "5">>,
                            <<"5", "a">>, <<" ", "1", "2">>}}

PushCalls ==
  {Pending("convertFrontmatterToNotionProperties",
           [frontmatter |-> fm,
            fieldMappings |-> <<[notionProperty |-> "Count", obsidianProperty |-> "count",
                                 type |-> "number"]>>]) : fm \in CountInputs}

\* relation lists of at most MaxRelations identifiers, each with the answer to its lookup
RelationInputs ==
  [id : {R1, R2},
   response : [ok : BOOLEAN, segs : {<<>>, <<<<>>>>, <<<<"T">>>>, <<<<"T">>, <<"2">>>>}]]

RelationCalls ==
  {Pending("getRelationDisplayText",
           [relations |-> [i \in DOMAIN rs |-> [id |-> rs[i].id]],
            responses |-> [i \in DOMAIN rs |-> rs[i].response]]) :
      rs \in UNION {[1..k -> RelationInputs] : k \in 0..MaxRelations}}

ParseCalls ==
  {Pending("parseMarkdownFile", [frontmatter |-> fm, content |-> c]) :
      fm \in FrontmatterInputs, c \in ContentInputs}

ConvertCalls ==
  {Pending("convertNotionPropertiesToFrontmatter", [properties |-> props]) :
      props \in UNION {[names -> PropertyInputs] : names \in SUBSET PropertyNames \ {{}}}}

InitCodec ==
  /\ remote = InitRemote
  /\ vault = [p \in {} |-> UserNote]
  /\ folderExists = TRUE
  /\ config = NoConfig
  /\ conflictResolution = "newer-wins"
  /\ now = 1
  /\ nextId = 0
  /\ run = IdleRun
  /\ hist = IdleHist
  /\ prev = NoPrev
  /\ budget = [runs |-> 0, edits |-> 0]
  /\ settings = [syncConfigs |-> <<>>, autoSync |-> FALSE]
  /\ batch = IdleBatch
  /\ \/ call \in ParseCalls
     \/ call \in ConvertCalls
     \/ call \in FileNameCalls
     \/ call \in PushCalls
     \/ call \in RelationCalls

CodecFrame ==
  UNCHANGED <<remote, vault, folderExists, config, conflictResolution, now, nextId,
              run, hist, prev, budget, settings, batch>>

\* parseMarkdownFile(file, createMarkdownContent(frontmatter, content))
ParseSerialized ==
  /\ call.op = "parseMarkdownFile"
  /\ ~call.done
  /\ call' = Returned(parseMarkdownText(createMarkdownText(call.in.frontmatter,
                                                           call.in.content)))
  /\ CodecFrame

\* convertNotionPropertiesToFrontmatter(properties, config) with no field mappings
ConvertProperties ==
  /\ call.op = "convertNotionPropertiesToFrontmatter"
  /\ ~call.done
  /\ call' = Returned(convertNotionPropertiesToFrontmatter(call.in.properties, NoConfig))
  /\ CodecFrame

\* getFileNameFromPage(page, config)
FileName ==
  /\ call.op = "getFileNameFromPage"
  /\ ~call.done
  /\ call' = Returned(getFileNameFromPage(call.in.page,
                                          [fieldMappings |-> call.in.fieldMappings]))
  /\ CodecFrame

\* convertFrontmatterToNotionProperties(frontmatter, config)
ConvertFrontmatter ==
  /\ call.op = "convertFrontmatterToNotionProperties"
  /\ ~call.done
  /\ call' = Returned(convertFrontmatterToNotionProperties(
                        call.in.frontmatter, [fieldMappings |-> call.in.fieldMappings]))
  /\ CodecFrame

\* getRelationDisplayText(relations)
ResolveRelations ==
  /\ call.op = "getRelationDisplayText"
  /\ ~call.done
  /\ call' = Returned(getRelationDisplayText(call.in.relations, call.in.responses))
  /\ CodecFrame

NextCodec ==
  \/ ParseSerialized
  \/ ConvertProperties
  \/ FileName
  \/ ConvertFrontmatter
  \/ ResolveRelations

SpecCodec == InitCodec /\ [][NextCodec]_vars

(***************************************************************************)
(* NotionAPI.getDatabasePages, one query of the while loop at a time.      *)
(***************************************************************************)
PageIdInputs == {<<"a">>, <<"b">>, <<"c">>}

\* one entry of response.results, and whether getPageContent answers for it
ResultInputs == [id : PageIdInputs, blocks : {<<"x">>}, contentOk : BOOLEAN]

Distinct(results) ==
  \A i, j \in DOMAIN results : results[i].id = results[j].id => i = j

RECURSIVE Flatten(_)
Flatten(batches) ==
  IF batches = <<>> THEN <<>> ELSE Head(batches) \o Flatten(Tail(batches))

\* the database as the service pages it: at least one response, no page twice
PagedDatabases ==
  {batches \in UNION {[1..k -> UNION {[1..n -> ResultInputs] : n \in 0..MaxBatchLen}] :
                        k \in 1..MaxBatches} :
      Distinct(Flatten(batches))}

\* POST /databases/{id}/query: the batch after the cursor; no cursor (0) is the
\* first batch, and next_cursor is null (0) on the last one
QueryResponse(batches, startCursor) ==
  LET k == IF startCursor = 0 THEN 1 ELSE startCursor
  IN [results |-> batches[k],
      has_more |-> k < Len(batches),
      next_cursor |-> IF k < Len(batches) THEN k + 1 ELSE 0]

\* the pages pushed for one batch; a failed getPageContent leaves content ''
BatchPages(results) ==
  [i \in DOMAIN results |->
     [id |-> results[i].id,
      content |-> IF results[i].contentOk THEN results[i].blocks ELSE <<>>]]

\* mutant: the loop stops after the first response
HasMoreNever(response) == FALSE

\* hasMore = response.has_more || false
HasMore(response) == response.has_more

PagesCalls ==
  {[op |-> "getDatabasePages", in |-> [batches |-> batches], done |-> FALSE,
    out |-> <<>>, failed |-> FALSE, allPages |-> <<>>, startCursor |-> 0,
    hasMore |-> TRUE, pageCount |-> 0] : batches \in PagedDatabases}

InitPages ==
  /\ remote = InitRemote
  /\ vault = [p \in {} |-> UserNote]
  /\ folderExists = TRUE
  /\ config = NoConfig
  /\ conflictResolution = "newer-wins"
  /\ now = 1
  /\ nextId = 0
  /\ run = IdleRun
  /\ hist = IdleHist
  /\ prev = NoPrev
  /\ budget = [runs |-> 0, edits |-> 0]
  /\ settings = [syncConfigs |-> <<>>, autoSync |-> FALSE]
  /\ batch = IdleBatch
  /\ call \in PagesCalls

\* one pass of the while loop: the query, then the pages of its batch
QueryBatch ==
  /\ call.op = "getDatabasePages"
  /\ ~call.done
  /\ call.hasMore
  /\ LET response == QueryResponse(call.in.batches, call.startCursor)
     IN call' = [call EXCEPT !.allPages = @ \o BatchPages(response.results),
                             !.hasMore = HasMore(response),
                             !.startCursor = response.next_cursor,
                             !.pageCount = @ + 1]
  /\ CodecFrame

\* this.request rejects: getDatabasePages rejects with it
QueryFails ==
  /\ call.op = "getDatabasePages"
  /\ ~call.done
  /\ call.hasMore
  /\ call' = [call EXCEPT !.done = TRUE, !.failed = TRUE]
  /\ CodecFrame

\* the loop condition is false: return allPages
ReturnPages ==
  /\ call.op = "getDatabasePages"
  /\ ~call.done
  /\ ~call.hasMore
  /\ call' = [call EXCEPT !.done = TRUE, !.out = call.allPages]
  /\ CodecFrame

NextPages ==
  \/ QueryBatch
  \/ QueryFails
  \/ ReturnPages

\* the event loop runs every continuation of an awaited call that has settled
SpecPages == InitPages /\ [][NextPages]_vars /\ WF_vars(NextPages)

(***************************************************************************)
(* Two runs of syncConfig over one configuration in flight together: the   *)
(* auto-sync timer and the commands call syncAll with no look at a call in *)
(* flight.  Each task is followed from one awaited call to the next.       *)
(***************************************************************************)
Tasks == {1, 2}

StartedTask(direction) ==
  [pc |-> "start", direction |-> direction, files |-> <<>>, pages |-> <<>>, i |-> 0,
   file |-> UserNote, pageId |-> Undefined]

OverlapCalls ==
  {[op |-> "overlap", tasks |-> tasks, created |-> {}, localCreated |-> {}] :
      tasks \in [Tasks -> {StartedTask(d) : d \in {NOTION_TO_OBSIDIAN, OBSIDIAN_TO_NOTION}}]}

InitOverlap ==
  /\ remote = InitRemote
  /\ \/ vault = [p \in {} |-> UserNote]
     \/ vault = ([folder |-> "F", name |-> <<"Y">>] :> UserNote)
  /\ folderExists = TRUE
  /\ config = Config("db", "F", <<StatusMapping>>)
  /\ conflictResolution = "newer-wins"
  /\ now = 1
  /\ nextId = 0
  /\ run = IdleRun
  /\ hist = IdleHist
  /\ prev = NoPrev
  /\ budget = [runs |-> 0, edits |-> 0]
  /\ settings = [syncConfigs |-> <<config>>, autoSync |-> TRUE]
  /\ batch = IdleBatch
  /\ call \in OverlapCalls

OverlapFrame ==
  UNCHANGED <<folderExists, config, conflictResolution, now, run, hist, prev, budget,
              settings, batch>>

TaskAt(t, pc, direction) ==
  /\ call.op = "overlap"
  /\ call.tasks[t].pc = pc
  /\ call.tasks[t].direction = direction

\* syncObsidianToNotion up to its first vault.read: the files of the folder
OverlapList(t) ==
  /\ TaskAt(t, "start", OBSIDIAN_TO_NOTION)
  /\ \E order \in Perms(FolderPaths) :
        call' = [call EXCEPT !.tasks[t].files = order, !.tasks[t].i = 1,
                             !.tasks[t].pc = "read"]
  /\ UNCHANGED <<remote, vault, nextId>>
  /\ OverlapFrame

\* await vault.read(file); the parsed note decides between update and create
OverlapRead(t) ==
  /\ TaskAt(t, "read", OBSIDIAN_TO_NOTION)
  /\ LET task == call.tasks[t]
     IN IF task.i > Len(task.files)
        THEN call' = [call EXCEPT !.tasks[t].pc = "done"]
        ELSE LET file == vault[task.files[task.i]]
                 note == parseMarkdownFile(task.files[task.i], file)
             IN call' = [call EXCEPT !.tasks[t].file = file,
                                     !.tasks[t].pc = IF note.notionId # Undefined
                                                     THEN "update" ELSE "create"]
  /\ UNCHANGED <<remote, vault, nextId>>
  /\ OverlapFrame

\* await notionApi.updatePage(note.notionId, notionProperties, note.content)
OverlapUpdate(t) ==
  /\ TaskAt(t, "update", OBSIDIAN_TO_NOTION)
  /\ LET task == call.tasks[t]
         note == parseMarkdownFile(task.files[task.i], task.file)
         notionProperties == convertFrontmatterToNotionProperties(note.frontmatter, config)
     IN /\ remote' = IF note.notionId \in DOMAIN remote
                     THEN Put(remote, note.notionId,
                              UpdatedPage(remote[note.notionId], notionProperties,
                                          note.content, "done"))
                     ELSE remote
        /\ call' = [call EXCEPT !.tasks[t].i = @ + 1, !.tasks[t].pc = "read"]
  /\ UNCHANGED <<vault, nextId>>
  /\ OverlapFrame

\* const pageId = await notionApi.createPage(...)
OverlapCreate(t) ==
  /\ TaskAt(t, "create", OBSIDIAN_TO_NOTION)
  /\ LET task == call.tasks[t]
         note == parseMarkdownFile(task.files[task.i], task.file)
         notionProperties == convertFrontmatterToNotionProperties(note.frontmatter, config)
     IN /\ remote' = Put(remote, NewPageId, CreatedPage(notionProperties, note.content))
        /\ nextId' = nextId + 1
        /\ call' = [call EXCEPT !.tasks[t].pageId = NewPageId,
                                !.tasks[t].pc = "modify",
                                !.created = @ \cup {[path |-> note.path,
                                                     pageId |-> NewPageId]}]
  /\ UNCHANGED vault
  /\ OverlapFrame

\* await vault.modify(file, updatedContent), built from the note as it was read
OverlapModify(t) ==
  /\ TaskAt(t, "modify", OBSIDIAN_TO_NOTION)
  /\ LET task == call.tasks[t]
         note == parseMarkdownFile(task.files[task.i], task.file)
     IN /\ vault' = VaultWrite(vault, note.path, LinkedContent(note, task.pageId))
        /\ call' = [call EXCEPT !.tasks[t].i = @ + 1, !.tasks[t].pc = "read"]
  /\ UNCHANGED <<remote, nextId>>
  /\ OverlapFrame

\* const notionPages = await getDatabasePages(...)
OverlapFetch(t) ==
  /\ TaskAt(t, "start", NOTION_TO_OBSIDIAN)
  /\ \E order \in Perms(DOMAIN remote) :
        call' = [call EXCEPT !.tasks[t].pages = [k \in 1..Len(order) |->
                                                   NotionPage(order[k], FALSE)],
                             !.tasks[t].i = 1,
                             !.tasks[t].pc = "write"]
  /\ UNCHANGED <<remote, vault, nextId>>
  /\ OverlapFrame

\* getAbstractFileByPath(filePath), then vault.modify or vault.create in the
\* same turn of the event loop
OverlapWrite(t) ==
  /\ TaskAt(t, "write", NOTION_TO_OBSIDIAN)
  /\ LET task == call.tasks[t]
     IN IF task.i > Len(task.pages)
        THEN /\ call' = [call EXCEPT !.tasks[t].pc = "done"]
             /\ UNCHANGED vault
        ELSE LET page == task.pages[task.i]
                 filePath == PagePath(page)
             IN /\ vault' = VaultWrite(vault, filePath, PageContent(page))
                /\ call' = [call EXCEPT
                              !.tasks[t].i = @ + 1,
                              !.localCreated = IF filePath \in DOMAIN vault THEN @
                                               ELSE @ \cup {[id |-> page.id,
                                                             path |-> filePath]}]
  /\ UNCHANGED <<remote, nextId>>
  /\ OverlapFrame

NextOverlap ==
  \/ \E t \in Tasks : OverlapList(t)
  \/ \E t \in Tasks : OverlapRead(t)
  \/ \E t \in Tasks : OverlapUpdate(t)
  \/ \E t \in Tasks : OverlapCreate(t)
  \/ \E t \in Tasks : OverlapModify(t)
  \/ \E t \in Tasks : OverlapFetch(t)
  \/ \E t \in Tasks : OverlapWrite(t)

SpecOverlap == InitOverlap /\ [][NextOverlap]_vars

(***************************************************************************)
(* The auto-sync timer: onload, the Enable Auto Sync toggle, the Sync      *)
(* Interval slider, setupAutoSync and onunload.  A handler of the settings *)
(* tab awaits saveSettings between its write and its call of               *)
(* setupAutoSync, so other handlers run in between.                        *)
(***************************************************************************)
Intervals == {5, 10}

\* the plugin before onload: settings as loadSettings read them
TimerCalls ==
  {[op |-> "timer", loaded |-> FALSE, autoSync |-> a, interval |-> m,
    syncInterval |-> 0, timers |-> {}, handles |-> 0, pending |-> {},
    events |-> 0, fires |-> 0, offFires |-> 0, unloaded |-> FALSE] : a \in BOOLEAN, m \in Intervals}

InitTimer ==
  /\ remote = InitRemote
  /\ vault = [p \in {} |-> UserNote]
  /\ folderExists = TRUE
  /\ config = NoConfig
  /\ conflictResolution = "newer-wins"
  /\ now = 1
  /\ nextId = 0
  /\ run = IdleRun
  /\ hist = IdleHist
  /\ prev = NoPrev
  /\ budget = [runs |-> 0, edits |-> 0]
  /\ settings = [syncConfigs |-> <<>>, autoSync |-> FALSE]
  /\ batch = IdleBatch
  /\ call \in TimerCalls

\* setupAutoSync: clear the interval of this.syncInterval, arm a new one
setupAutoSync(c) ==
  [c EXCEPT !.timers = {h \in c.timers : h.id # c.syncInterval}
                         \cup {[id |-> c.handles + 1, minutes |-> c.interval]},
            !.syncInterval = c.handles + 1,
            !.handles = c.handles + 1]

\* onload: if (this.settings.autoSync) this.setupAutoSync()
Onload ==
  /\ call.op = "timer"
  /\ ~call.loaded
  /\ ~call.unloaded
  /\ call' = IF call.autoSync THEN [setupAutoSync(call) EXCEPT !.loaded = TRUE]
             ELSE [call EXCEPT !.loaded = TRUE]
  /\ CodecFrame

\* the toggle: settings.autoSync = value, then await saveSettings()
ToggleAutoSync ==
  /\ call.op = "timer"
  /\ call.loaded
  /\ call.events < MaxEvents
  /\ LET value == ~call.autoSync
     IN call' = [call EXCEPT !.autoSync = value,
                             !.pending = @ \cup {[handler |-> "toggle", value |-> value,
                                                  event |-> call.events + 1]},
                             !.events = @ + 1]
  /\ CodecFrame

\* the slider: settings.syncInterval = value, then await saveSettings()
SlideInterval ==
  /\ call.op = "timer"
  /\ call.loaded
  /\ call.events < MaxEvents
  /\ \E value \in Intervals \ {call.interval} :
        call' = [call EXCEPT !.interval = value,
                             !.pending = @ \cup {[handler |-> "slider", value |-> TRUE,
                                                  event |-> call.events + 1]},
                             !.events = @ + 1]
  /\ CodecFrame

\* after the await: the toggle looks at its argument, the slider at the setting
Arms(handler) ==
  IF handler.handler = "toggle" THEN handler.value ELSE call.autoSync

SettingSaved ==
  /\ call.op = "timer"
  /\ \E handler \in call.pending :
        call' = IF Arms(handler)
                THEN [setupAutoSync(call) EXCEPT !.pending = @ \ {handler}]
                ELSE [call EXCEPT !.pending = @ \ {handler}]
  /\ CodecFrame

\* an armed interval elapses: this.syncManager.syncAll()
TimerFires ==
  /\ call.op = "timer"
  /\ call.loaded
  /\ call.fires < MaxFires
  /\ call.timers # {}
  /\ call' = [call EXCEPT !.fires = @ + 1,
                          !.offFires = @ + (IF call.autoSync THEN 0 ELSE 1)]
  /\ CodecFrame

\* onunload: clear the interval of this.syncInterval
Onunload ==
  /\ call.op = "timer"
  /\ call.loaded
  /\ call.pending = {}
  /\ call' = [call EXCEPT !.timers = {h \in @ : h.id # call.syncInterval},
                          !.loaded = FALSE, !.unloaded = TRUE]
  /\ CodecFrame

NextTimer ==
  \/ Onload
  \/ ToggleAutoSync
  \/ SlideInterval
  \/ SettingSaved
  \/ TimerFires
  \/ Onunload

SpecTimer == InitTimer /\ [][NextTimer]_vars

(***************************************************************************)
(* FieldMappingModal: one row per Notion property, each with its closure   *)
(* variable `mapping`, its check box, and the list this.mappings.          *)
(***************************************************************************)
\* the properties of the database the dialog was opened for
DialogProperties == [Name |-> "title", Count |-> "number"]

typeMappingOptions(propType) ==
  CASE propType = "title" -> <<"text">>
    [] propType = "number" -> <<"number", "text">>
    [] OTHER -> <<"text">>

\* what the user can type into the Obsidian Property input
NameInputs == {<<>>, <<" ">>, <<"x">>, <<"x", " ">>}

\* const mapping = {notionProperty: propName, obsidianProperty: propName, type: recommendedType}
InitialRow(propName) ==
  [notionProperty |-> propName, obsidianProperty |-> <<propName>>,
   type |-> typeMappingOptions(DialogProperties[propName])[1], checked |-> TRUE]

RECURSIVE Filtered(_, _)
Filtered(mappings, notionProperty) ==
  IF mappings = <<>> THEN <<>>
  ELSE IF Head(mappings).notionProperty = notionProperty
       THEN Filtered(Tail(mappings), notionProperty)
       ELSE <<Head(mappings)>> \o Filtered(Tail(mappings), notionProperty)

\* updateMapping(mapping): drop the entry of the property, push the new one
\* when the trimmed name is not empty
updateMapping(mappings, row) ==
  IF Trim(row.obsidianProperty) # <<>>
  THEN Append(Filtered(mappings, row.notionProperty),
              [notionProperty |-> row.notionProperty,
               obsidianProperty |-> Trim(row.obsidianProperty),
               type |-> row.type])
  ELSE Filtered(mappings, row.notionProperty)

removeMapping(mappings, notionProperty) == Filtered(mappings, notionProperty)

RECURSIVE OpenedMappings(_, _)
OpenedMappings(names, mappings) ==
  IF names = <<>> THEN mappings
  ELSE OpenedMappings(Tail(names), updateMapping(mappings, InitialRow(Head(names))))

\* onOpen has run: every row was added with updateMapping
DialogCalls ==
  {[op |-> "dialog",
    rows |-> [n \in DOMAIN DialogProperties |-> InitialRow(n)],
    mappings |-> OpenedMappings(order, <<>>),
    events |-> 0, saved |-> FALSE, out |-> <<>>] :
      order \in Perms(DOMAIN DialogProperties)}

InitDialog ==
  /\ remote = InitRemote
  /\ vault = [p \in {} |-> UserNote]
  /\ folderExists = TRUE
  /\ config = NoConfig
  /\ conflictResolution = "newer-wins"
  /\ now = 1
  /\ nextId = 0
  /\ run = IdleRun
  /\ hist = IdleHist
  /\ prev = NoPrev
  /\ budget = [runs |-> 0, edits |-> 0]
  /\ settings = [syncConfigs |-> <<>>, autoSync |-> FALSE]
  /\ batch = IdleBatch
  /\ call \in DialogCalls

DialogOpen ==
  /\ call.op = "dialog"
  /\ ~call.saved
  /\ call.events < MaxEvents

\* the input event of the Obsidian Property field
EditName ==
  /\ DialogOpen
  /\ \E n \in DOMAIN DialogProperties, value \in NameInputs :
        LET row == [call.rows[n] EXCEPT !.obsidianProperty = value]
        IN call' = [call EXCEPT !.rows[n] = row,
                                !.mappings = updateMapping(@, row),
                                !.events = @ + 1]
  /\ CodecFrame

\* the change event of the Mapping Type select
ChangeType ==
  /\ DialogOpen
  /\ \E n \in DOMAIN DialogProperties :
        \E k \in DOMAIN typeMappingOptions(DialogProperties[n]) :
           LET row == [call.rows[n] EXCEPT
                         !.type = typeMappingOptions(DialogProperties[n])[k]]
           IN /\ row # call.rows[n]
              /\ call' = [call EXCEPT !.rows[n] = row,
                                      !.mappings = updateMapping(@, row),
                                      !.events = @ + 1]
  /\ CodecFrame

\* the change event of the Enable check box
ToggleEnable ==
  /\ DialogOpen
  /\ \E n \in DOMAIN DialogProperties :
        LET row == [call.rows[n] EXCEPT !.checked = ~@]
        IN call' = [call EXCEPT !.rows[n] = row,
                                !.mappings = IF row.checked THEN updateMapping(@, row)
                                             ELSE removeMapping(@, n),
                                !.events = @ + 1]
  /\ CodecFrame

\* Save Mappings: this.onSave(this.mappings)
SaveMappings ==
  /\ call.op = "dialog"
  /\ ~call.saved
  /\ call' = [call EXCEPT !.saved = TRUE, !.out = call.mappings]
  /\ CodecFrame

NextDialog ==
  \/ EditName
  \/ ChangeType
  \/ ToggleEnable
  \/ SaveMappings

SpecDialog == InitDialog /\ [][NextDialog]_vars

(***************************************************************************)
(* Properties.                                                             *)
(***************************************************************************)
NotionIdOf(files, p) == parseMarkdownFile(p, files[p]).notionId

LinkedPaths(files) == {p \in DOMAIN files : NotionIdOf(files, p) # Undefined}

PullDone == run.pc = "done" /\ run.actualDirection = NOTION_TO_OBSIDIAN
MergeDone == run.pc = "done" /\ run.actualDirection = BIDIRECTIONAL

StoresUntouched ==
  /\ vault = hist.preVault
  /\ remote = hist.preRemote
  /\ hist.localWrites = 0
  /\ hist.remoteWrites = 0

\* C1: after any sequence of pull and merge runs, no two files of the vault
\* carry the same notionId in their front-matter.
C1_LinkInvariant ==
  \A p \in LinkedPaths(vault), q \in LinkedPaths(vault) :
     NotionIdOf(vault, p) = NotionIdOf(vault, q) => p = q

\* C2: createPage is called only for a note without notionId or, in a merge,
\* for a note whose notionId is not among the fetched pages; a push never
\* creates a page for a note that carries a notionId.
C2_CreateOnlyForUnlinked ==
  \A c \in hist.creates :
     \/ c.notionId = Undefined
     \/ c.direction = BIDIRECTIONAL /\ ~c.inSnapshot

C2_Witness ==
  /\ run.pc = "done"
  /\ \E c \in hist.creates : c.direction = BIDIRECTIONAL /\ c.notionId # Undefined
  /\ \E c \in hist.creates : c.notionId = Undefined

\* C3: while a run is in flight and when it has ended, every file path and
\* every page id that existed when the run started still exists.
C3_NoDeletion ==
  run.pc # "idle" =>
    /\ DOMAIN hist.preVault \subseteq DOMAIN vault
    /\ DOMAIN hist.preRemote \subseteq DOMAIN remote

C3_Witness ==
  /\ run.pc = "done"
  /\ hist.localWrites > 0
  /\ hist.remoteWrites > 0
  /\ hist.preVault # EmptyMap
  /\ vault # hist.preVault
  /\ \E id \in DOMAIN hist.preRemote : remote[id] # hist.preRemote[id]

C5_NoDuplicateLinking ==
  (/\ MergeDone
   /\ \A p \in LinkedPaths(hist.preVault), q \in LinkedPaths(hist.preVault) :
         NotionIdOf(hist.preVault, p) = NotionIdOf(hist.preVault, q) => p = q)
  => Cardinality({p \in LinkedPaths(vault) :
                    \E k \in 1..Len(run.notionPages) :
                       run.notionPages[k].id = NotionIdOf(vault, p)})
       <= Len(run.notionPages)

\* C6: a merge run that follows a finished merge run, with a policy other than
\* manual and no external edit in between, writes nothing on either side.
C6_Convergence ==
  (/\ MergeDone
   /\ prev.pc = "done"
   /\ prev.actualDirection = BIDIRECTIONAL
   /\ ~prev.remoteEdited
   /\ ~prev.localEdited
   /\ conflictResolution # "manual")
  => /\ hist.localWrites = 0
     /\ hist.remoteWrites = 0
     /\ run.notionToObsidian = 0
     /\ run.obsidianToNotion = 0

\* C7: in every direction a run that has fetched its pages does not throw
\* because a single record or document failed: no run ends in failure with an
\* item-level failure behind it.
C7_ItemFailuresCaught ==
  run.pc = "failed" => hist.itemFailures = 0

\* C8: in a pull every fetched page is attempted and counted exactly once:
\* after k iterations created + updated + failed = k, the loop is left only
\* after the last page, and a page's failure never makes the run throw.
C8_PullCounts ==
  /\ run.pc = "pull_loop" =>
       run.createdCount + run.updatedCount + run.errorCount = run.i - 1
  /\ (run.actualDirection = NOTION_TO_OBSIDIAN /\ run.pc \in {"finish", "done"}
      /\ Len(run.notionPages) > 0) =>
       /\ run.i = Len(run.notionPages) + 1
       /\ run.createdCount + run.updatedCount + run.errorCount = Len(run.notionPages)
  /\ (run.actualDirection = NOTION_TO_OBSIDIAN /\ run.pc = "failed") =>
       hist.itemFailures = 0

C8_Witness ==
  /\ PullDone
  /\ Len(run.notionPages) = 2
  /\ run.errorCount = 1
  /\ run.createdCount + run.updatedCount = 1
  /\ run.notionPages[1].id \notin DOMAIN hist.written

\* C9: when getDatabasePages fails in a pull or a merge, the run has thrown,
\* the error names the configuration, and neither store nor lastSync changed.
C9_FetchFailureAborts ==
  hist.fetchFailed =>
    /\ run.pc = "failed"
    /\ run.error.config = config.name
    /\ StoresUntouched
    /\ config.lastSync = hist.preLastSync

C9_Witness ==
  /\ hist.fetchFailed
  /\ run.pc = "failed"
  /\ run.actualDirection = BIDIRECTIONAL
  /\ vault # EmptyMap

\* C10: a run over a configuration whose notionDatabaseId or obsidianFolder is
\* empty has thrown before any I/O, with the message that names the field,
\* and has changed neither store.
C10_InvalidConfigFailsFast ==
  (run.pc # "idle" /\ (config.notionDatabaseId = "" \/ config.obsidianFolder = "")) =>
    /\ run.pc = "failed"
    /\ hist.io = 0
    /\ StoresUntouched
    /\ run.error.config = config.name
    /\ run.error.message = IF config.notionDatabaseId = ""
                           THEN "No Notion database ID specified"
                           ELSE "No Obsidian folder specified"

C10_Witness ==
  /\ run.pc = "failed"
  /\ config.obsidianFolder = ""
  /\ run.error.message = "No Obsidian folder specified"
  /\ remote # EmptyMap

StepsOf(direction) ==
  CASE direction = NOTION_TO_OBSIDIAN -> {"pull_fetch", "pull_folder", "pull_loop"}
    [] direction = OBSIDIAN_TO_NOTION -> {"push_list", "push_loop"}
    [] direction = BIDIRECTIONAL ->
         {"merge_fetch", "merge_read", "merge_reading", "merge_pages", "merge_notes"}
    [] OTHER -> {}

ValidConfig == config.notionDatabaseId # "" /\ config.obsidianFolder # ""

\* C11: the requested direction is the override if given, else the config's.
\* Without field mappings a requested bidirectional run takes pull steps only
\* and never writes to Notion, and a requested push has thrown before any I/O;
\* with field mappings the run takes the steps of the requested direction only.
C11_DirectionResolution ==
  (run.pc # "idle" /\ ValidConfig) =>
    /\ run.direction = IF run.overrideDirection # "" THEN run.overrideDirection
                       ELSE config.syncDirection
    /\ (Len(config.fieldMappings) = 0 /\ run.direction = BIDIRECTIONAL) =>
          /\ run.pc \in StepsOf(NOTION_TO_OBSIDIAN) \cup {"finish", "done", "failed"}
          /\ hist.remoteWrites = 0
          /\ remote = hist.preRemote
    /\ (Len(config.fieldMappings) = 0 /\ run.direction = OBSIDIAN_TO_NOTION) =>
          /\ run.pc = "failed"
          /\ run.error.config = config.name
          /\ run.error.message = "Cannot sync from Obsidian to Notion without field mappings"
          /\ hist.io = 0
          /\ StoresUntouched
    /\ Len(config.fieldMappings) > 0 =>
          run.pc \in StepsOf(run.direction) \cup {"finish", "done", "failed"}

C11_Witness ==
  /\ run.pc = "done"
  /\ Len(config.fieldMappings) = 0
  /\ run.overrideDirection = ""
  /\ run.direction = BIDIRECTIONAL
  /\ hist.localWrites = 2
  /\ vault # hist.preVault

\* the elements of a set of numbers in ascending order
Ascending(S) ==
  CHOOSE f \in [1..Cardinality(S) -> S] : \A i, j \in 1..Cardinality(S) : i < j => f[i] < f[j]

\* the configurations the loop of syncAll has dealt with or is dealing with
Reached ==
  CASE batch.pc = "idle" -> 0
    [] batch.pc \in {"loop", "call"} -> batch.k - 1
    [] batch.pc = "await" -> batch.k
    [] batch.pc = "done" -> Len(settings.syncConfigs)

\* C12: syncAll calls syncConfig for the enabled configurations in list order,
\* one at a time, never for a disabled one, and goes on after a failed one:
\* when it ends every enabled configuration has been called exactly once and
\* counted as a success or as a failure.
C12_SyncAllInOrder ==
  batch.pc # "idle" =>
    /\ batch.called = Ascending({j \in 1..Reached : settings.syncConfigs[j].enabled})
    /\ batch.skipped = {j \in 1..Min(batch.k - 1, Len(settings.syncConfigs)) :
                          ~settings.syncConfigs[j].enabled}
    /\ batch.successCount + batch.errorCount
         = Len(batch.called) - (IF batch.pc = "await" THEN 1 ELSE 0)
    /\ batch.pc # "await" => run.pc = "idle"
    /\ batch.pc = "await" => config.name = settings.syncConfigs[batch.k].name
    /\ (batch.pc = "done" /\ Len(settings.syncConfigs) > 0) =>
          batch.k = Len(settings.syncConfigs) + 1

C12_Witness ==
  /\ batch.pc = "done"
  /\ Len(settings.syncConfigs) = 3
  /\ batch.called = <<1, 3>>
  /\ batch.skipped = {2}
  /\ batch.errorCount = 1
  /\ batch.successCount = 1
  /\ prev.pc = "done"
  /\ settings.syncConfigs[1].lastSync = 0
  /\ settings.syncConfigs[3].lastSync > 0

\* C13: at most one syncAll call is in flight at any time.
C13_SingleFlight == batch.inFlight <= 1

\* the loop of the merge is about to call resolveConflict for a linked pair
AtPair ==
  /\ run.pc = "merge_pages"
  /\ run.i <= Len(run.notionPages)
  /\ ObsidianMapGet(run.obsidianNotes, run.notionPages[run.i].id) # 0

CurrentPage == run.notionPages[run.i]
CurrentNote == run.obsidianNotes[ObsidianMapGet(run.obsidianNotes, CurrentPage.id)]

\* every mapped property has the same trimmed text on both sides, and the
\* bodies are the same text after CRLF -> LF and trimming
PairEqual(page, note) ==
  /\ \A m \in 1..Len(config.fieldMappings) :
        normalizeValue(convertNotionPropertiesToFrontmatter(page.properties, config),
                       config.fieldMappings[m].obsidianProperty)
          = normalizeValue(note.frontmatter, config.fieldMappings[m].obsidianProperty)
  /\ Trim(CrLfToLf(page.content)) = Trim(CrLfToLf(note.content))

ReturnedNow(outcome) ==
  \E e \in hist'.resolved :
     e.page = CurrentPage /\ e.note = CurrentNote /\ e.outcome = outcome

Refetched(id) ==
  [id |-> id, properties |-> remote'[id].properties,
   content |-> blocksToMarkdown(remote'[id].blocks),
   lastModified |-> remote'[id].last_edited_time]

\* the file holds exactly what the run writes for the page
HoldsPage(file, page) ==
  /\ file.fm = PageContent(page).fm
  /\ file.rest = PageContent(page).rest

\* C15: when the merge step for a differing pair returns, then under
\* notion-wins the note linked to the page holds the page's properties and
\* body and the page is untouched, and under obsidian-wins the page's mapped
\* properties and body are equal to the note's.
C15_PolicyApplied ==
  [][(AtPair /\ ~PairEqual(CurrentPage, CurrentNote) /\ run'.pc = "merge_pages") =>
       /\ conflictResolution = "notion-wins" =>
            /\ HoldsPage(vault'[CurrentNote.path], CurrentPage)
            /\ remote' = remote
       /\ conflictResolution = "obsidian-wins" =>
            PairEqual(Refetched(CurrentPage.id), CurrentNote)]_vars

\* C16: under the manual policy a differing pair is returned as a conflict,
\* its note and its page are as they were when the run started, for the rest
\* of the run, and the conflict counter counts exactly these pairs.
C16_ManualWritesNeither ==
  /\ \A e \in hist.resolved :
        (e.policy = "manual" /\ ~PairEqual(e.page, e.note)) =>
          /\ e.outcome = "conflict"
          /\ vault[e.note.path] = hist.preVault[e.note.path]
          /\ remote[e.page.id] = hist.preRemote[e.page.id]
  /\ (conflictResolution = "manual" /\ run.actualDirection = BIDIRECTIONAL) =>
        run.conflicts = Cardinality({e \in hist.resolved : ~PairEqual(e.page, e.note)})

C16_Witness ==
  /\ MergeDone
  /\ conflictResolution = "manual"
  /\ run.conflicts = 1
  /\ hist.localWrites > 0
  /\ \E e \in hist.resolved :
        /\ e.outcome = "conflict"
        /\ e.page.content # <<>>
        /\ normalizeContent(e.page.content) # normalizeContent(e.note.content)

C18_TieIsRemoteWins ==
  [][(/\ AtPair
      /\ ~PairEqual(CurrentPage, CurrentNote)
      /\ conflictResolution = "newer-wins"
      /\ CurrentPage.lastModified = CurrentNote.lastModified
      /\ run'.pc = "merge_pages") =>
       /\ ReturnedNow("notion-wins")
       /\ run'.notionToObsidian = run.notionToObsidian + 1
       /\ HoldsPage(vault'[PagePath(CurrentPage)], CurrentPage)
       /\ remote' = remote]_vars

Outcomes == {"notion-wins", "obsidian-wins", "no-change", "conflict"}

AtUnlinkedPage ==
  /\ run.pc = "merge_pages"
  /\ run.i <= Len(run.notionPages)
  /\ ObsidianMapGet(run.obsidianNotes, run.notionPages[run.i].id) = 0

\* the second loop of the merge is at a note without notionId
AtUnlinkedNote ==
  /\ run.pc = "merge_notes"
  /\ run.i <= Len(run.obsidianNotes)
  /\ run.obsidianNotes[run.i].notionId = Undefined

\* C20: when no I/O call fails, the merge step for a page without a linked
\* note adds a file that holds the page and leaves every existing file as it
\* is, also when an unlinked note has the page's derived file name; the merge
\* step for a note without notionId adds a page and leaves the others as they are.
C20_UnlinkedCreatedAsNew ==
  [][/\ (AtUnlinkedPage /\ folderExists /\ hist'.faults = hist.faults) =>
          /\ \E p \in DOMAIN vault' \ DOMAIN vault : HoldsPage(vault'[p], CurrentPage)
          /\ \A q \in DOMAIN vault : vault'[q] = vault[q]
          /\ run'.pc = "merge_pages"
     /\ (AtUnlinkedNote /\ hist'.faults = hist.faults) =>
          /\ DOMAIN remote' \ DOMAIN remote = {NewPageId}
          /\ \A id \in DOMAIN remote : remote'[id] = remote[id]
          /\ run'.pc = "merge_notes"]_vars


(***************************************************************************)
(* C21  Push link establishment.  A push iteration that creates a page for *)
(* a note without notionId and returns leaves the note carrying the id of  *)
(* the page it created; a push iteration over a note that carries a        *)
(* notionId creates no page, and when it returns it has updated the page   *)
(* of that id.  So the push run after a creating one updates and does not  *)
(* create again.                                                           *)
(***************************************************************************)
AtPushFile == run.pc = "push_loop" /\ run.i <= Len(run.files)

PushedNote == parseMarkdownFile(run.files[run.i], vault[run.files[run.i]])

SameValue(written, parsed) ==
  \/ written.t = parsed.t /\ written.v = parsed.v
  \/ /\ written.t = "string" /\ parsed.t = "number"
     /\ ~Number(written.v[1]).nan
     /\ parsed.v = <<NumberText(Number(written.v[1]).n)>>

SameEntries(entries, fm) ==
  /\ DOMAIN fm = {entries[i].key : i \in DOMAIN entries}
  /\ \A i \in DOMAIN entries : SameValue(entries[i], fm[entries[i].key])

ParsedBack == call.op = "parseMarkdownFile" /\ call.done

C22_RoundTrip ==
  ParsedBack =>
    /\ SameEntries(call.in.frontmatter, call.out.frontmatter)
    /\ call.out.content = call.in.content


(***************************************************************************)
(* C23  A rewrite that only adds link metadata keeps the document.  A step *)
(* that mutated a page and then wrote the note back (the id write-back     *)
(* after createPage, the time stamp after updatePage) leaves the body of   *)
(* the note and every front-matter entry other than notionId and           *)
(* lastObsidianSync as they were before the step.                          *)
(***************************************************************************)
LinkKeys == {"notionId", "lastObsidianSync"}

MetadataRewrite ==
  /\ hist'.remoteWrites > hist.remoteWrites
  /\ hist'.localWrites > hist.localWrites

SameDocument(before, after) ==
  /\ after.content = before.content
  /\ DOMAIN after.frontmatter \ LinkKeys = DOMAIN before.frontmatter \ LinkKeys
  /\ \A k \in DOMAIN before.frontmatter \ LinkKeys :
        after.frontmatter[k] = before.frontmatter[k]

C23_RewriteKeepsDocument ==
  [][MetadataRewrite =>
       \A p \in DOMAIN vault :
          /\ p \in DOMAIN vault'
          /\ SameDocument(parseMarkdownFile(p, vault[p]), parseMarkdownFile(p, vault'[p]))]_vars


(***************************************************************************)
(* C24  Conversion without mappings.  The front-matter has exactly one     *)
(* entry per property, under the property name in lower case, also for a   *)
(* property without value.                                                 *)
(***************************************************************************)
Converted == call.op = "convertNotionPropertiesToFrontmatter" /\ call.done

C24_KeyedByLowerCase ==
  Converted =>
    /\ DOMAIN call.out = {ToLowerCase(n) : n \in DOMAIN call.in.properties}
    /\ Cardinality(DOMAIN call.out) = Cardinality(DOMAIN call.in.properties)

HelloDone ==
  [n \in {"Name", "Done"} |->
     IF n = "Name" THEN TitleProp(<<Hello>>)
     ELSE [type |-> "checkbox", segs |-> <<BooleanText(TRUE)>>]]

\* {Name: title "Hello", Done: checkbox true} has given {name: "Hello", done: true}
C24_Witness ==
  /\ Converted
  /\ call.in.properties = HelloDone
  /\ DOMAIN call.out = {"name", "done"}
  /\ call.out["name"] = Hello
  /\ call.out["done"] = TRUE


(***************************************************************************)
(* C25  Filename fallback.  For a page none of whose title-typed           *)
(* properties holds any text, the file name is "Notion-Page-" followed by  *)
(* the first 8 characters of the page id.                                  *)
(***************************************************************************)
FileNamed == call.op = "getFileNameFromPage" /\ call.done

NoTitleText(page) ==
  \A n \in DOMAIN page.properties :
     page.properties[n].type = "title" => Concat(page.properties[n].segs) = <<>>

C25_FallbackName ==
  (FileNamed /\ NoTitleText(call.in.page)) =>
     /\ SubSeq(call.out, 1, 12) = <<"N", "o", "t", "i", "o", "n", "-", "P", "a", "g", "e", "-">>
     /\ \/ /\ Len(call.in.page.id) >= 8
           /\ SubSeq(call.out, 13, Len(call.out)) = SubSeq(call.in.page.id, 1, 8)
        \/ /\ Len(call.in.page.id) < 8
           /\ SubSeq(call.out, 13, Len(call.out)) = call.in.page.id

\* the page "abc12345xyz" without title property was named "Notion-Page-abc12345"
C25_Witness ==
  /\ FileNamed
  /\ DOMAIN call.in.page.properties = {"Status"}
  /\ call.in.page.id = <<"a", "b", "c", "1", "2", "3", "4", "5", "x", "y", "z">>
  /\ call.out = <<"N", "o", "t", "i", "o", "n", "-", "P", "a", "g", "e", "-",
                  "a", "b", "c", "1", "2", "3", "4", "5">>


(***************************************************************************)
(* C26  Filename priority and sanitisation.  The name comes from the title *)
(* of the property of the first mapping named like a title, else from a    *)
(* title-typed property, else it is the fallback; it is never empty, never *)
(* longer than 100 characters and has none of < > : " / \ | ? *.           *)
(***************************************************************************)
\* the titles the name can come from, in the order of priority
TitleSources(page, mappings) ==
  LET k == FirstIndex(mappings, LAMBDA m : m.notionProperty \in {"Name", "Subtitle"})
  IN (IF k # 0 /\ mappings[k].notionProperty \in DOMAIN page.properties
      THEN <<page.properties[mappings[k].notionProperty]>> ELSE <<>>)
     \o (IF "Name" \in DOMAIN page.properties THEN <<page.properties["Name"]>> ELSE <<>>)
     \o (IF "Subtitle" \in DOMAIN page.properties THEN <<page.properties["Subtitle"]>>
         ELSE <<>>)

FromFirstSource(page, mappings, name) ==
  LET sources == SelectSeq(TitleSources(page, mappings), HasTitleText)
  IN IF sources = <<>>
     THEN SubSeq(name, 1, 12) = <<"N", "o", "t", "i", "o", "n", "-", "P", "a", "g", "e", "-">>
     ELSE name = sanitizeFileName(sources[1].segs[1])

C26_PriorityAndSanitisation ==
  FileNamed =>
    /\ FromFirstSource(call.in.page, call.in.fieldMappings, call.out)
    /\ call.out # <<>>
    /\ Len(call.out) <= 100
    /\ \A i \in DOMAIN call.out : call.out[i] \notin {"<", ">", ":", "\"", "/", "\\", "|", "?", "*"}


(***************************************************************************)
(* C27  Number mappings.  A local value that is not a number (an optional  *)
(* sign and decimal digits, white space around them allowed) gives no      *)
(* entry for the Notion property: it is dropped and not sent as 0.         *)
(***************************************************************************)
IsNumeral(text) ==
  LET t == Trim(text)
      ds == IF t # <<>> /\ t[1] \in {"-", "+"} THEN Tail(t) ELSE t
  IN /\ ds # <<>>
     /\ \A i \in DOMAIN ds : ds[i] \in {"0", "1", "2", "3", "4", "5", "6", "7", "8", "9"}

C27_InvalidNumberDropped ==
  (/\ call.op = "convertFrontmatterToNotionProperties"
   /\ call.done
   /\ "count" \in DOMAIN call.in.frontmatter
   /\ ~IsNumeral(call.in.frontmatter["count"]))
  => "Count" \notin DOMAIN call.out


(***************************************************************************)
(* C28  Relation resolution.  For k related identifiers the text joins k   *)
(* entries in the order of the list; the entry of an identifier is the     *)
(* title found for it, or a placeholder when the lookup failed or found no *)
(* title; every identifier is looked up, also after a failed lookup.       *)
(***************************************************************************)
RelationsResolved == call.op = "getRelationDisplayText" /\ call.done

TitleFound(response) == response.ok /\ Concat(response.segs) # <<>>

C28_RelationText ==
  RelationsResolved =>
    LET k == Len(call.in.relations) IN
    /\ Len(call.out.relationTexts) = k
    /\ \A i \in 1..k :
          IF TitleFound(call.in.responses[i])
          THEN call.out.relationTexts[i] = Concat(call.in.responses[i].segs)
          ELSE call.out.relationTexts[i]
                 \in {<<"U", "n", "t", "i", "t", "l", "e", "d">>,
                      <<"U", "n", "k", "n", "o", "w", "n">>}
    /\ call.out.lookups = [i \in 1..k |-> call.in.relations[i].id]
    /\ call.out.text = Join(call.out.relationTexts, <<",", " ">>)

\* three identifiers, the lookup of the first failed, the third has its title
C28_Witness ==
  /\ RelationsResolved
  /\ Len(call.in.relations) = 3
  /\ ~call.in.responses[1].ok
  /\ TitleFound(call.in.responses[3])
  /\ call.out.text = <<"U", "n", "t", "i", "t", "l", "e", "d", ",", " ",
                       "U", "n", "t", "i", "t", "l", "e", "d", ",", " ", "T">>


(***************************************************************************)
(* C29  Single-flow execution.  At no moment of a run is more than one     *)
(* I/O call in flight.                                                     *)
(***************************************************************************)
C29_SingleFlow == InFlight <= 1

\* C30: syncConfig writes no field of the SyncConfig other than lastSync, it
\* writes lastSync only in the step after the direction's flow returned without
\* throwing, and a run that failed, at validation or at the fetch, leaves
\* lastSync at the value it had when the run was entered.
OtherFieldsKept == [config' EXCEPT !.lastSync = config.lastSync] = config

LastSyncOnlyOnReturn ==
  config'.lastSync # config.lastSync
    => /\ run.pc = "finish"
       /\ run'.pc = "done"
       /\ run.error = NoError

FailedRunKeepsLastSync == run'.pc = "failed" => config'.lastSync = hist'.preLastSync

C30_OnlyLastSync ==
  [][OtherFieldsKept /\ LastSyncOnlyOnReturn /\ FailedRunKeepsLastSync]_vars

\* a run after a completed one failed at the fetch or at validation, and
\* lastSync still has the stamp of the completed run
C30_Witness ==
  /\ run.pc = "failed"
  /\ prev.pc = "done"
  /\ hist.preLastSync > 0
  /\ config.lastSync = hist.preLastSync
  /\ config.lastSync < now

\* C31: getDatabasePages queries batch after batch along the cursor and, when
\* no request failed, returns the pages of every batch once and in batch
\* order; it makes no query after a response with has_more false, one query
\* per batch, and the call always settles.
PagesReturned ==
  /\ call.op = "getDatabasePages"
  /\ call.done
  /\ ~call.failed

AllBatchesInOrder ==
  PagesReturned =>
    /\ call.out = BatchPages(Flatten(call.in.batches))
    /\ call.pageCount = Len(call.in.batches)

NoQueryAfterLast ==
  (call.op = "getDatabasePages" /\ ~call.hasMore) =>
    /\ call.pageCount = Len(call.in.batches)
    /\ call.startCursor = 0

C31_Pagination == [](AllBatchesInOrder /\ NoQueryAfterLast) /\ <>(call.done)

\* three batches have been aggregated, one of them empty and one with a page
\* whose content could not be read
C31_Witness ==
  /\ PagesReturned
  /\ Len(call.in.batches) = MaxBatches
  /\ Len(call.out) >= 2
  /\ \E k \in DOMAIN call.in.batches : call.in.batches[k] = <<>>
  /\ \E i \in DOMAIN call.out : call.out[i].content = <<>>

\* C32: only the pull is available to users: whatever command, button or
\* timer starts a run over configurations made in the dialogs, the flow that
\* runs is the pull, never the push and never the merge.
C32_OnlyPull == run.actualDirection \in {"", NOTION_TO_OBSIDIAN}

\* C33: a run of syncConfig over a configuration with no field mappings, in
\* whatever direction it was asked for, calls neither createPage nor
\* updatePage: it creates no page and leaves the database as the run found it,
\* apart from what the user edited in Notion meanwhile.
NoMappings == Len(config.fieldMappings) = 0

C33_NoRemoteMutation ==
  [][(NoMappings /\ run.pc # "idle")
       => /\ hist'.remoteWrites = 0
          /\ hist'.creates = {}
          /\ nextId' = nextId
          /\ (remote' # remote => budget'.edits > budget.edits)]_vars

\* a merge was asked for over a folder holding a note without page id; the run
\* completed as a pull, wrote local files and created nothing in Notion
C33_Witness ==
  /\ NoMappings
  /\ run.pc = "done"
  /\ run.direction = BIDIRECTIONAL
  /\ hist.localWrites > 0
  /\ hist.remoteWrites = 0
  /\ \E p \in DOMAIN hist.preVault : "notionId" \notin DOMAIN hist.preVault[p].fm
  /\ DOMAIN remote = DOMAIN hist.preRemote

\* C34: over successive runs each local document that had no page id causes
\* at most one page to be created, also when the write of the new id into
\* the document failed after createPage had succeeded.  The only document
\* that ever lacks a page id is the note the user wrote, every other one is
\* written by a pull with its id: the pages created are never more than the
\* user's notes.
UserNotes == {p \in DOMAIN vault : p.name = <<"Y">>}

C34_OneCreatePerNote == nextId <= Cardinality(UserNotes)

\* C35: when a pull has run without a failure on any record, every record it
\* fetched has a document in the configured folder whose front-matter
\* notionId is the id of that record, also when two records give one file
\* name.
HasDocument(id) ==
  \E p \in DOMAIN vault :
     /\ p.folder = config.obsidianFolder
     /\ "notionId" \in DOMAIN vault[p].fm
     /\ vault[p].fm["notionId"] = id

C35_EveryRecordHasDocument ==
  (run.pc \in {"finish", "done"} /\ run.actualDirection = NOTION_TO_OBSIDIAN
     /\ run.errorCount = 0 /\ hist.itemFailures = 0)
    => \A k \in DOMAIN run.notionPages : HasDocument(run.notionPages[k].id)

\* C36: when two runs over one configuration overlap, still no local
\* document has two pages created for it and no page has two local documents
\* created for it.
C36_OverlapCreatesOnce ==
  call.op = "overlap" =>
    /\ \A c, d \in call.created : c.path = d.path => c = d
    /\ \A c, d \in call.localCreated : c.id = d.id => c = d

\* C37: a pull, or an update in which the page wins, never replaces the
\* non-empty body of a local document that exists by empty text only because
\* the fetch of the page's content failed while the pages were collected.
\* the record was fetched with empty content although the page has blocks
ContentFetchFailed(page) ==
  /\ page.content = <<>>
  /\ page.id \in DOMAIN hist.preRemote
  /\ hist.preRemote[page.id].blocks # <<>>
  /\ remote[page.id].blocks = hist.preRemote[page.id].blocks

BodyEmptied(path) ==
  /\ path \in DOMAIN vault
  /\ Trim(vault[path].rest) # <<>>
  /\ Trim(vault'[path].rest) = <<>>

C37_BodyKept ==
  [][\A k \in DOMAIN run.notionPages :
        (run.i = k /\ ContentFetchFailed(run.notionPages[k]))
          => ~BodyEmptied(PagePath(run.notionPages[k]))]_vars

\* C38: the timer calls syncAll only while the autoSync setting is true, so
\* none of its calls comes after the user turned autoSync off; and whatever
\* the changes of the interval, at most one interval timer is armed.
TimerOnlyWhileOn == call.op = "timer" => call.offFires = 0

OneTimer == call.op = "timer" => Cardinality(call.timers) <= 1

C38_TimerFollowsSetting == TimerOnlyWhileOn /\ OneTimer

\* C39: whatever names were typed, types chosen and check boxes switched, the
\* list handed to onSave has at most one entry per Notion property, no entry
\* with an empty Obsidian property name and no entry for a property whose
\* Enable check box is unchecked.
MappingsSaved == call.op = "dialog" /\ call.saved

OnePerProperty ==
  MappingsSaved =>
    \A i, j \in DOMAIN call.out :
       call.out[i].notionProperty = call.out[j].notionProperty => i = j

NoEmptyName ==
  MappingsSaved => \A i \in DOMAIN call.out : Trim(call.out[i].obsidianProperty) # <<>>

NoneUnchecked ==
  MappingsSaved =>
    \A i \in DOMAIN call.out : call.rows[call.out[i].notionProperty].checked

C39_SavedMappings == OnePerProperty /\ NoEmptyName /\ NoneUnchecked

====
